---------------------------- MODULE Spec2Model ----------------------------
(***************************************************************************)
(* Alert-rule compilation and multi-resource synchronization of the        *)
(* observability handlers (pkg/service/handlers/observability/monitor.go). *)
(*                                                                         *)
(* Text is modelled as a sequence of tokens: a query, a message, a         *)
(* duration and a match pattern are all token sequences, and               *)
(* strings.Contains is contiguous sub-sequence containment.  A label value *)
(* token stands for the quoted value.                                      *)
(***************************************************************************)
EXTENDS Integers, Sequences, FiniteSets, TLC

VARIABLES
    req,        \* the *models.AlertRule being derived by getAlertRuleReq
    bound,      \* the rule as bound from the request (history)
    pc,         \* the next step of getAlertRuleReq, "ok" or "failed"
    failedAt,   \* the step that returned the error ("" when none)
    err,        \* the error returned by the request pipeline
    again,      \* result of a second setExpr on the derived rule (<<>> = not run)
    secrets,    \* namespace -> the email Secret (<<>> = absent)
    prules,     \* <<namespace, name>> -> the PrometheusRule (<<>> = absent)
    amcfgs,     \* <<namespace, name>> -> the AlertmanagerConfig (<<>> = absent)
    call,       \* the syncMonitorAlertRule call in flight
    prev,       \* the last completed sync and the remote state it left (history)
    store,      \* the committed rows of the alert_rules table
    nextID,     \* the table's auto-increment counter
    silences,   \* <<namespace, name>> of the rules that have a silence
    proc,       \* per request slot: the handler running in it and its position
    ops,        \* number of requests started so far
    svcs,       \* <<namespace, name>> -> the Service (<<>> = absent)
    sms,        \* <<namespace, name>> -> the ServiceMonitor (<<>> = absent)
    coll,       \* the last monitor-collector request and its outcome (history)
    whitelist,  \* Signer.WhiteList of the validating signer
    sent,       \* what Sign was given and the time it read (history)
    wire,       \* the request on its way to Validate: path and signature headers
    verdict     \* what Validate was given and the error it returned

reqVars  == <<req, bound, pc, failedAt, err, again>>
syncVars == <<secrets, prules, amcfgs, call, prev>>
storeVars == <<store, nextID, silences, proc, ops>>
collVars == <<svcs, sms, coll>>
sigVars  == <<whitelist, sent, wire, verdict>>
restVars == <<collVars, sigVars>>
vars     == <<req, bound, pc, failedAt, err, again, secrets, prules, amcfgs, call, prev,
              store, nextID, silences, proc, ops, svcs, sms, coll, whitelist, sent, wire,
              verdict>>

---------------------------------------------------------------------------
(* Bounds of the model.                                                    *)
MaxMatchers  == 3
MaxReceivers == 2
MaxLevels    == 2

Nil == "nil"

RECURSIVE SeqsUpTo(_, _)
SeqsUpTo(S, n) ==
    IF n = 0 THEN {<<>>}
    ELSE LET shorter == SeqsUpTo(S, n - 1)
         IN  shorter \cup {Append(s, x) : s \in {t \in shorter : Len(t) = n - 1}, x \in S}

(* strings.Contains(text, pat) on token sequences.                         *)
Contains(text, pat) ==
    \E i \in 1..(Len(text) - Len(pat) + 1) : SubSeq(text, i, i + Len(pat) - 1) = pat

RECURSIVE Join(_, _)
(* strings.Join of a list of texts with a separator text.                  *)
Join(texts, sep) ==
    IF texts = <<>> THEN <<>>
    ELSE IF Len(texts) = 1 THEN texts[1]
    ELSE texts[1] \o sep \o Join(Tail(texts), sep)

---------------------------------------------------------------------------
(* Program constants.                                                      *)
AlertTypeMonitor     == "monitor"
AlertTypeLogging     == "logging"
GlobalAlertNamespace == "kubegems-monitoring"
MatchEqual           == "="
DefaultChannelID     == 1
MaxLogqlMinutes      == 10

ErrTemplateNotFound  == "promql template not found"
ErrUnknownUnit       == "unit not valid"
ErrParse             == "parse promql"
ErrDuplicatedMatcher == "duplicated label matcher"
ErrDuration          == "duration not valid"
ErrDurationTooLong   == "logql duration over 10m"
ErrMatch             == "match not valid"
ErrEmptyMatchers     == "labelMatchers can't be null"
ErrEmptyExpr         == "empty expr"
ErrSyntax            == "parse expr"
ErrCompareOp         == "expr contains comparison operator"
ErrNamespace         == "expr must contain namespace"
ErrEmptyReceivers    == "receivers empty"
ErrDuplicateChannel  == "channel duplicated"
ErrRecordNotFound    == "record not found"
ErrEmptyLevels       == "alert levels empty"
ErrDuplicateSeverity == "alert level duplicated"
ErrInhibitLabels     == "inhibit labels empty"

---------------------------------------------------------------------------
(* Token classes of the query language.                                    *)
Metrics    == {"cpu_usage", "up"}
Funcs      == {"sum", "vector"}
Numbers    == {"1", "80"}
LabelNames == {"pod", "node", "namespace"}
MatchTypes == {"=", "!=", "=~", "!~"}
LabelVals  == {"web", "api", "n1", "team-a", "other"}
CompareOps == {"<", "<=", "==", "!=", ">", ">="}
BinOps     == CompareOps \cup {"/"}

LabelMatcher(n, t, v) == [Name |-> n, Type |-> t, Value |-> v]

(* promql.LabelMatcher.String(): name, match type, quoted value.           *)
MatcherString(m) == <<m.Name, m.Type, m.Value>>

(* A parsed query: a sequence of nodes, each a literal token or a vector   *)
(* selector with its label matchers.                                       *)
Lit(t)     == [kind |-> "lit", tok |-> t, ms |-> <<>>]
Sel(t, ms) == [kind |-> "sel", tok |-> t, ms |-> ms]
ParseFail  == [ok |-> FALSE, ast |-> <<>>, rest |-> <<>>]

RECURSIVE ParseMatchers(_, _)
(* The label matchers of a selector, after its opening brace.              *)
ParseMatchers(toks, acc) ==
    IF toks = <<>> THEN [ok |-> FALSE, ms |-> <<>>, rest |-> <<>>]
    ELSE IF Head(toks) = "}" THEN [ok |-> TRUE, ms |-> acc, rest |-> Tail(toks)]
    ELSE IF /\ Len(toks) >= 4
            /\ toks[1] \in LabelNames /\ toks[2] \in MatchTypes /\ toks[3] \in LabelVals
         THEN LET m == LabelMatcher(toks[1], toks[2], toks[3])
                  r == SubSeq(toks, 4, Len(toks))
              IN  IF Head(r) = "}" THEN [ok |-> TRUE, ms |-> Append(acc, m), rest |-> Tail(r)]
                  ELSE IF Head(r) = "," THEN ParseMatchers(Tail(r), Append(acc, m))
                  ELSE [ok |-> FALSE, ms |-> <<>>, rest |-> <<>>]
    ELSE [ok |-> FALSE, ms |-> <<>>, rest |-> <<>>]

RECURSIVE ParseQuery(_)
(* parser.ParseExpr: Expr := Term [BinOp Expr];                            *)
(* Term := Func ( Expr ) | Metric [ { matchers } ] | Number.               *)
SelTerm(metric, p) ==
    IF p.ok THEN [ok |-> TRUE, ast |-> <<Sel(metric, p.ms)>>, rest |-> p.rest]
    ELSE ParseFail

FuncTerm(func, p) ==
    IF p.ok /\ p.rest # <<>> /\ Head(p.rest) = ")"
    THEN [ok |-> TRUE,
          ast |-> <<Lit(func), Lit("(")>> \o p.ast \o <<Lit(")")>>,
          rest |-> Tail(p.rest)]
    ELSE ParseFail

ParseTerm(toks) ==
    IF toks = <<>> THEN ParseFail
    ELSE IF Head(toks) \in Numbers
         THEN [ok |-> TRUE, ast |-> <<Lit(Head(toks))>>, rest |-> Tail(toks)]
    ELSE IF Head(toks) \in Metrics
         THEN IF Len(toks) >= 2 /\ toks[2] = "{"
              THEN SelTerm(Head(toks), ParseMatchers(SubSeq(toks, 3, Len(toks)), <<>>))
              ELSE [ok |-> TRUE, ast |-> <<Sel(Head(toks), <<>>)>>, rest |-> Tail(toks)]
    ELSE IF Head(toks) \in Funcs /\ Len(toks) >= 2 /\ toks[2] = "("
         THEN FuncTerm(Head(toks), ParseQuery(SubSeq(toks, 3, Len(toks))))
    ELSE ParseFail

BinaryExpr(t, r) ==
    IF r.ok THEN [ok |-> TRUE, ast |-> t.ast \o <<Lit(Head(t.rest))>> \o r.ast, rest |-> r.rest]
    ELSE ParseFail

AfterTerm(t) ==
    IF ~t.ok THEN ParseFail
    ELSE IF t.rest # <<>> /\ Head(t.rest) \in BinOps
         THEN BinaryExpr(t, ParseQuery(Tail(t.rest)))
    ELSE t

ParseQuery(toks) == AfterTerm(ParseTerm(toks))

WholeText(p) ==
    IF p.ok /\ p.rest = <<>> THEN [ok |-> TRUE, ast |-> p.ast]
    ELSE [ok |-> FALSE, ast |-> <<>>]

(* parser.ParseExpr(text): the whole text must be one expression.          *)
ParseExpr(text) == WholeText(ParseQuery(text))

(* promql.New: parse the template's expression into a query.               *)
promqlNew(text) == ParseExpr(text)

(* Query.AddLabelMatchers: append the matchers to every vector selector.   *)
AddLabelMatchers(ast, ms) ==
    [i \in 1..Len(ast) |->
        IF ast[i].kind = "sel" THEN [ast[i] EXCEPT !.ms = @ \o ms] ELSE ast[i]]

RECURSIVE QueryString(_)
(* Query.String(): re-serialize the query; a selector without matchers is  *)
(* printed without braces.                                                 *)
QueryString(ast) ==
    IF ast = <<>> THEN <<>>
    ELSE LET n == Head(ast)
             s == IF n.kind = "lit" \/ n.ms = <<>> THEN <<n.tok>>
                  ELSE <<n.tok, "{">>
                       \o Join([i \in 1..Len(n.ms) |-> MatcherString(n.ms[i])], <<",">>)
                       \o <<"}">>
         IN  s \o QueryString(Tail(ast))

(* prometheus.SplitQueryExpr's hasOp: the text holds a comparison operator. *)
HasCompareOp(text) == \E i \in 1..Len(text) : text[i] \in CompareOps

---------------------------------------------------------------------------
(* External catalogs read by the request pipeline.                         *)

(* The promql template catalog (FindPromqlTpl), keyed by the generator's   *)
(* scope/resource/rule reference.  Catalog expressions parse.              *)
TplRules == {"usage", "ratio", "const"}
TplCatalog ==
    [r \in TplRules |->
        CASE r = "usage" -> [Expr |-> <<"cpu_usage">>,
                             Labels |-> <<"pod">>, RuleShowName |-> "cpu usage"]
          [] r = "ratio" -> [Expr |-> <<"cpu_usage", "/", "up">>,
                             Labels |-> <<"pod", "node">>, RuleShowName |-> "cpu ratio"]
          [] r = "const" -> [Expr |-> <<"vector", "(", "1", ")">>,
                             Labels |-> <<>>, RuleShowName |-> "constant"]]

FindPromqlTpl(rule) ==
    IF rule \in TplRules THEN [err |-> Nil, tpl |-> <<TplCatalog[rule]>>]
    ELSE [err |-> ErrTemplateNotFound, tpl |-> <<>>]

(* prometheus.ParseUnit: the unit-name catalog.                            *)
UnitNames == {"percent", "bytes"}
ParseUnit(unit) ==
    IF unit \in UnitNames
    THEN [err |-> Nil, Show |-> IF unit = "percent" THEN "%" ELSE "B"]
    ELSE [err |-> ErrUnknownUnit, Show |-> ""]

(* The alert channels stored in the database.  Channel 3 is referenced by  *)
(* requests but not stored.                                                *)
ChannelIDs == {1, 2, 4}
ChannelTable ==
    [id \in ChannelIDs |->
        CASE id = 1 -> [ID |-> 1, Name |-> "default-webhook", Kind |-> "webhook",
                        From |-> "", AuthPassword |-> ""]
          [] id = 2 -> [ID |-> 2, Name |-> "ops-mail", Kind |-> "email",
                        From |-> "ops@example.com", AuthPassword |-> "pw-ops"]
          [] id = 4 -> [ID |-> 4, Name |-> "dev-mail", Kind |-> "email",
                        From |-> "dev@example.com", AuthPassword |-> "pw-dev"]]
ChannelStub(id) ==
    [ID |-> id, Name |-> "", Kind |-> "", From |-> "", AuthPassword |-> ""]

(* db.First(&AlertChannel{ID: id}).                                        *)
FirstChannel(id) ==
    IF id \in ChannelIDs THEN [err |-> Nil, ch |-> ChannelTable[id]]
    ELSE [err |-> ErrRecordNotFound, ch |-> ChannelStub(id)]

---------------------------------------------------------------------------
(* setMessage                                                              *)
ValueAnnotationExpr == "{{ $value }}"

RECURSIVE LabelPlaceholders(_)
LabelPlaceholders(labels) ==
    IF labels = <<>> THEN <<>>
    ELSE <<"[", Head(labels), ":{{ $labels.", Head(labels), "}}]">>
         \o LabelPlaceholders(Tail(labels))

(* The generated monitor message, m1 being its part before the unit is    *)
(* parsed.                                                                 *)
promqlMessage(alertrule, g, m1, unit) ==
    IF unit.err # Nil
    THEN [err |-> unit.err, rule |-> [alertrule EXCEPT !.Message = m1]]
    ELSE [err |-> Nil,
          rule |-> [alertrule EXCEPT !.Message =
              m1 \o <<g.Tpl[1].RuleShowName, "trigger alert, value:",
                      ValueAnnotationExpr, unit.Show>>]]

logqlMessage(alertrule, g) ==
    [err |-> Nil,
     rule |-> [alertrule EXCEPT !.Message =
         <<alertrule.Name, ": [cluster:{{ $labels }}]", "[namespace]">>
         \o LabelPlaceholders([i \in 1..Len(g.LabelMatchers) |-> g.LabelMatchers[i].Name])
         \o <<"logs in the past">> \o g.Duration \o <<"matched [">> \o g.Match
         \o <<"] count triggers alert, value:", ValueAnnotationExpr>>]]

setMessage(alertrule) ==
    IF alertrule.AlertType = AlertTypeMonitor THEN
        IF alertrule.PromqlGenerator # <<>> THEN
            IF alertrule.Message = <<>> THEN
                promqlMessage(alertrule, alertrule.PromqlGenerator[1],
                    <<alertrule.Name, ": [cluster:{{ $externalLabels }}]">>
                        \o LabelPlaceholders(alertrule.PromqlGenerator[1].Tpl[1].Labels),
                    ParseUnit(alertrule.PromqlGenerator[1].Unit))
            ELSE [err |-> Nil, rule |-> alertrule]
        ELSE [err |-> Nil,
              rule |-> [alertrule EXCEPT !.Message =
                  <<alertrule.Name, ": [cluster:{{ $externalLabels }}]",
                    "trigger alert, value:", ValueAnnotationExpr>>]]
    ELSE
        IF alertrule.LogqlGenerator # <<>>
        THEN logqlMessage(alertrule, alertrule.LogqlGenerator[1])
        ELSE [err |-> Nil,
              rule |-> [alertrule EXCEPT !.Message =
                  <<alertrule.Name, ": [cluster:{{ $labels }}]",
                    "trigger alert, value:", ValueAnnotationExpr>>]]

---------------------------------------------------------------------------
(* setExpr                                                                 *)

(* The rule is namespace-scoped: neither the global sentinel nor empty.    *)
NamespaceScoped(ns) == ns # GlobalAlertNamespace /\ ns # ""

NamespaceMatcher(ns) == LabelMatcher("namespace", MatchEqual, ns)

RECURSIVE DuplicatedAdjacent(_, _)
(* Variant of the labelSet loop that remembers the previous name only.     *)
DuplicatedAdjacent(ms, seen) ==
    IF ms = <<>> THEN FALSE
    ELSE IF Head(ms).Name \in seen THEN TRUE
    ELSE DuplicatedAdjacent(Tail(ms), {Head(ms).Name})

RECURSIVE DuplicatedFrom(_, _)
(* The labelSet loop: the first matcher whose name was already seen fails. *)
DuplicatedFrom(ms, seen) ==
    IF ms = <<>> THEN FALSE
    ELSE IF Head(ms).Name \in seen THEN TRUE
    ELSE DuplicatedFrom(Tail(ms), seen \cup {Head(ms).Name})

HasDuplicatedMatcher(ms) == DuplicatedFrom(ms, {})

(* Variant that appends the namespace matcher only when the caller sent    *)
(* no matcher on the label namespace.                                      *)
withNamespaceMatcherUnlessSent(alertrule) ==
    IF /\ NamespaceScoped(alertrule.Namespace)
       /\ \A i \in 1..Len(alertrule.PromqlGenerator[1].LabelMatchers) :
            alertrule.PromqlGenerator[1].LabelMatchers[i].Name # "namespace"
    THEN Append(alertrule.PromqlGenerator[1].LabelMatchers, NamespaceMatcher(alertrule.Namespace))
    ELSE alertrule.PromqlGenerator[1].LabelMatchers

(* The generator's matcher list after the namespace matcher is appended.  *)
withNamespaceMatcher(alertrule) ==
    IF NamespaceScoped(alertrule.Namespace)
    THEN Append(alertrule.PromqlGenerator[1].LabelMatchers, NamespaceMatcher(alertrule.Namespace))
    ELSE alertrule.PromqlGenerator[1].LabelMatchers

(* The labelSet loop and q.String() on the query q and the matchers ms.    *)
addMatchers(alertrule, q, ms) ==
    IF ~q.ok THEN [err |-> ErrParse, rule |-> alertrule]
    ELSE IF HasDuplicatedMatcher(ms)
    THEN [err |-> ErrDuplicatedMatcher,
          rule |-> [alertrule EXCEPT !.PromqlGenerator[1].LabelMatchers = ms]]
    ELSE [err |-> Nil,
          rule |-> [alertrule EXCEPT !.PromqlGenerator[1].LabelMatchers = ms,
                                     !.Expr = QueryString(AddLabelMatchers(q.ast, ms))]]

(* The PromqlGenerator branch: the namespace matcher is appended to the    *)
(* generator's own matcher list, which stays appended on every return      *)
(* after the template parsed.                                              *)
promqlGenerate(alertrule) ==
    addMatchers(alertrule, promqlNew(alertrule.PromqlGenerator[1].Tpl[1].Expr),
                withNamespaceMatcher(alertrule))

(* model.ParseDuration: <number><unit> pairs, units in descending order,   *)
(* each at most once; "0" alone is zero.  (The units y and w are left out: *)
(* their millisecond counts exceed the checker's integers.)                *)
NumVal == [t \in {"0", "1", "9", "10", "11", "59", "600", "601"} |->
            CASE t = "0" -> 0 [] t = "1" -> 1 [] t = "9" -> 9 [] t = "10" -> 10
              [] t = "11" -> 11 [] t = "59" -> 59 [] t = "600" -> 600 [] t = "601" -> 601]
UnitOrder == <<"d", "h", "m", "s", "ms">>
UnitMillis == [u \in {"d", "h", "m", "s", "ms"} |->
            CASE u = "d" -> 86400000 [] u = "h" -> 3600000 [] u = "m" -> 60000
              [] u = "s" -> 1000 [] u = "ms" -> 1]
UnitRank(u) == CHOOSE i \in 1..Len(UnitOrder) : UnitOrder[i] = u

RECURSIVE DurationPairs(_, _, _)
DurationPairs(toks, lastRank, acc) ==
    IF toks = <<>> THEN [err |-> Nil, ms |-> acc]
    ELSE IF /\ Len(toks) >= 2
            /\ toks[1] \in DOMAIN NumVal
            /\ toks[2] \in DOMAIN UnitMillis
            /\ UnitRank(toks[2]) > lastRank
         THEN DurationPairs(SubSeq(toks, 3, Len(toks)), UnitRank(toks[2]),
                            acc + NumVal[toks[1]] * UnitMillis[toks[2]])
    ELSE [err |-> ErrDuration, ms |-> 0]

ParseDuration(text) ==
    IF text = <<"0">> THEN [err |-> Nil, ms |-> 0]
    ELSE IF text = <<>> THEN [err |-> ErrDuration, ms |-> 0]
    ELSE DurationPairs(text, 0, 0)

(* Variant of the bound that also refuses ten minutes.                     *)
DurationTooLongInclusive(ms) == ms >= MaxLogqlMinutes * 60000

(* time.Duration(dur).Minutes() > 10                                       *)
DurationTooLong(ms) == ms > MaxLogqlMinutes * 60000

(* regexp.Compile: an unclosed bracket does not compile.                   *)
RegexpCompiles(text) == ~(\E i \in 1..Len(text) : text[i] = "[")

(* sort.Strings on the matcher strings: byte order of name, type, value.   *)
TokOrder == <<"namespace", "node", "pod", "!=", "!~", "=", "=~",
              "api", "n1", "other", "team-a", "web">>
TokRank(t) == CHOOSE i \in 1..Len(TokOrder) : TokOrder[i] = t
StringLess(a, b) ==
    \E i \in 1..Len(a) :
        /\ i <= Len(b)
        /\ TokRank(a[i]) < TokRank(b[i])
        /\ \A j \in 1..(i - 1) : a[j] = b[j]

RECURSIVE SortStrings(_)
SortStrings(texts) ==
    IF texts = <<>> THEN <<>>
    ELSE LET i == CHOOSE k \in 1..Len(texts) :
                      \A j \in 1..Len(texts) : ~StringLess(texts[j], texts[k])
         IN  <<texts[i]>> \o SortStrings(SubSeq(texts, 1, i - 1) \o SubSeq(texts, i + 1, Len(texts)))

(* The label selector of the log query: the sorted matcher strings, then  *)
(* the namespace matcher.                                                  *)
LogqlLabelValues(alertrule) ==
    SortStrings([i \in 1..Len(alertrule.LogqlGenerator[1].LabelMatchers) |->
                    MatcherString(alertrule.LogqlGenerator[1].LabelMatchers[i])])
    \o << <<"namespace", "=", alertrule.Namespace>> >>

logqlBuild(alertrule, g, dur) ==
    IF dur.err # Nil THEN [err |-> ErrDuration, rule |-> alertrule]
    ELSE IF DurationTooLong(dur.ms) THEN [err |-> ErrDurationTooLong, rule |-> alertrule]
    ELSE IF ~RegexpCompiles(g.Match) THEN [err |-> ErrMatch, rule |-> alertrule]
    ELSE IF Len(g.LabelMatchers) = 0 THEN [err |-> ErrEmptyMatchers, rule |-> alertrule]
    ELSE [err |-> Nil,
          rule |-> [alertrule EXCEPT !.Expr =
              <<"sum", "(", "count_over_time", "(", "{">>
              \o Join(LogqlLabelValues(alertrule), <<",">>)
              \o <<"}", "|~">> \o g.Match \o <<"[">> \o g.Duration
              \o <<"]", ")", ")", "without", "(", "fluentd_thread", ")">>]]

(* The LogqlGenerator branch.                                              *)
logqlGenerate(alertrule) ==
    logqlBuild(alertrule, alertrule.LogqlGenerator[1],
               ParseDuration(alertrule.LogqlGenerator[1].Duration))

(* Variant that derives the expr only when the caller sent none.           *)
generateExprUnlessSent(alertrule) ==
    IF alertrule.Expr # <<>>
    THEN [err |-> Nil, rule |-> alertrule]
    ELSE IF alertrule.AlertType = AlertTypeMonitor /\ alertrule.PromqlGenerator # <<>>
    THEN promqlGenerate(alertrule)
    ELSE IF alertrule.AlertType = AlertTypeLogging /\ alertrule.LogqlGenerator # <<>>
    THEN logqlGenerate(alertrule)
    ELSE [err |-> Nil, rule |-> alertrule]

(* The generator switch of setExpr.                                        *)
generateExpr(alertrule) ==
    IF alertrule.AlertType = AlertTypeMonitor /\ alertrule.PromqlGenerator # <<>>
    THEN promqlGenerate(alertrule)
    ELSE IF alertrule.AlertType = AlertTypeLogging /\ alertrule.LogqlGenerator # <<>>
    THEN logqlGenerate(alertrule)
    ELSE [err |-> Nil, rule |-> alertrule]

(* An expression statement: the error value is built and not returned.    *)
Discarded(e) == Nil

(* if alertrule.Expr == "" { errors.New("empty expr") }                    *)
emptyExprCheck(alertrule) ==
    IF alertrule.Expr = <<>> THEN Discarded(ErrEmptyExpr) ELSE Nil

(* parser.ParseExpr on a monitor rule; its error goes to errors.Wrapf,     *)
(* whose result is not returned.                                           *)
syntaxCheck(alertrule) ==
    IF alertrule.AlertType = AlertTypeMonitor /\ ~ParseExpr(alertrule.Expr).ok
    THEN Discarded(ErrSyntax) ELSE Nil

(* Variant of setExpr without the hasOp return.                            *)
compareOpCheckSkipped(alertrule) == Nil

(* SplitQueryExpr's hasOp rejects the rule.                                *)
compareOpCheck(alertrule) ==
    IF HasCompareOp(alertrule.Expr) THEN ErrCompareOp ELSE Nil

(* Variant of setExpr without the namespace return.                        *)
namespaceCheckSkipped(alertrule) == Nil

(* A namespace-scoped rule must contain namespace=~"ns" or namespace="ns". *)
namespaceCheck(alertrule) ==
    IF /\ alertrule.Namespace # "" /\ alertrule.Namespace # GlobalAlertNamespace
       /\ ~(\/ Contains(alertrule.Expr, <<"namespace", "=~", alertrule.Namespace>>)
            \/ Contains(alertrule.Expr, <<"namespace", "=", alertrule.Namespace>>))
    THEN ErrNamespace ELSE Nil

(* The checks of setExpr that follow the generator switch.                *)
checkExpr(g) ==
    IF g.err # Nil THEN g
    ELSE IF emptyExprCheck(g.rule) # Nil THEN [err |-> emptyExprCheck(g.rule), rule |-> g.rule]
    ELSE IF syntaxCheck(g.rule) # Nil THEN [err |-> syntaxCheck(g.rule), rule |-> g.rule]
    ELSE IF compareOpCheck(g.rule) # Nil THEN [err |-> compareOpCheck(g.rule), rule |-> g.rule]
    ELSE [err |-> namespaceCheck(g.rule), rule |-> g.rule]

setExpr(alertrule) == checkExpr(generateExpr(alertrule))

---------------------------------------------------------------------------
(* setReceivers                                                            *)
RECURSIVE DuplicatedChannelFrom(_, _)
DuplicatedChannelFrom(recs, seen) ==
    IF recs = <<>> THEN FALSE
    ELSE IF Head(recs).AlertChannelID \in seen THEN TRUE
    ELSE DuplicatedChannelFrom(Tail(recs), seen \cup {Head(recs).AlertChannelID})

ChannelSet(recs) == {recs[i].AlertChannelID : i \in 1..Len(recs)}

(* Variant that gives the default receiver the last receiver's interval.   *)
withDefaultReceiverLastInterval(recs) ==
    IF DefaultChannelID \notin ChannelSet(recs)
    THEN Append(recs, [AlertChannelID |-> DefaultChannelID,
                       Interval |-> recs[Len(recs)].Interval,
                       AlertRuleID |-> 0,
                       AlertChannel |-> <<>>])
    ELSE recs

(* The default channel is appended when the caller's list omits it.        *)
withDefaultReceiver(recs) ==
    IF DefaultChannelID \notin ChannelSet(recs)
    THEN Append(recs, [AlertChannelID |-> DefaultChannelID,
                       Interval |-> recs[1].Interval,
                       AlertRuleID |-> 0,
                       AlertChannel |-> <<>>])
    ELSE recs

RECURSIVE attachChannels(_, _)
(* The lookup loop: every receiver up to and including the first one whose *)
(* channel is missing has its AlertChannel replaced.                       *)
attachNext(done, todo, f) ==
    IF f.err # Nil
    THEN [err |-> f.err,
          recs |-> Append(done, [Head(todo) EXCEPT !.AlertChannel = <<f.ch>>]) \o Tail(todo)]
    ELSE attachChannels(Append(done, [Head(todo) EXCEPT !.AlertChannel = <<f.ch>>]), Tail(todo))

attachChannels(done, todo) ==
    IF todo = <<>> THEN [err |-> Nil, recs |-> done]
    ELSE attachNext(done, todo, FirstChannel(Head(todo).AlertChannelID))

attached(alertrule, a) == [err |-> a.err, rule |-> [alertrule EXCEPT !.Receivers = a.recs]]

(* Variant that appends the default receiver and looks the channels up     *)
(* before it tests for a duplicated channel.                               *)
duplicateAfterLookup(alertrule, a) ==
    IF a.err # Nil THEN a
    ELSE IF DuplicatedChannelFrom(alertrule.Receivers, {})
    THEN [err |-> ErrDuplicateChannel, rule |-> a.rule]
    ELSE a
setReceiversLookupFirst(alertrule) ==
    IF Len(alertrule.Receivers) = 0 THEN [err |-> ErrEmptyReceivers, rule |-> alertrule]
    ELSE duplicateAfterLookup(alertrule,
            attached(alertrule, attachChannels(<<>>, withDefaultReceiver(alertrule.Receivers))))

setReceivers(alertrule) ==
    IF Len(alertrule.Receivers) = 0 THEN [err |-> ErrEmptyReceivers, rule |-> alertrule]
    ELSE IF DuplicatedChannelFrom(alertrule.Receivers, {})
    THEN [err |-> ErrDuplicateChannel, rule |-> alertrule]
    ELSE attached(alertrule, attachChannels(<<>>, withDefaultReceiver(alertrule.Receivers)))

---------------------------------------------------------------------------
(* checkAlertLevels                                                        *)
RECURSIVE DuplicatedSeverityFrom(_, _)
DuplicatedSeverityFrom(levels, seen) ==
    IF levels = <<>> THEN FALSE
    ELSE IF Head(levels).Severity \in seen THEN TRUE
    ELSE DuplicatedSeverityFrom(Tail(levels), seen \cup {Head(levels).Severity})

(* Variant without the inhibit-label requirement.                          *)
checkAlertLevelsNoInhibit(alertrule) ==
    IF Len(alertrule.AlertLevels) = 0 THEN ErrEmptyLevels
    ELSE IF DuplicatedSeverityFrom(alertrule.AlertLevels, {}) THEN ErrDuplicateSeverity
    ELSE Nil

checkAlertLevels(alertrule) ==
    IF Len(alertrule.AlertLevels) = 0 THEN ErrEmptyLevels
    ELSE IF DuplicatedSeverityFrom(alertrule.AlertLevels, {}) THEN ErrDuplicateSeverity
    ELSE IF Len(alertrule.AlertLevels) > 1 /\ Len(alertrule.InhibitLabels) = 0
    THEN ErrInhibitLabels
    ELSE Nil

---------------------------------------------------------------------------
(* getAlertRuleReq: the template lookup that follows BindJSON.             *)
withTpl(alertrule, f) ==
    IF f.err # Nil THEN [err |-> f.err, rule |-> alertrule]
    ELSE [err |-> Nil, rule |-> [alertrule EXCEPT !.PromqlGenerator[1].Tpl = f.tpl]]

setTpl(alertrule) ==
    IF alertrule.PromqlGenerator # <<>>
    THEN withTpl(alertrule, FindPromqlTpl(alertrule.PromqlGenerator[1].Rule))
    ELSE [err |-> Nil, rule |-> alertrule]

(* getAlertRuleReq as one function of the bound request: each step runs    *)
(* on the rule the step before left, the first error is returned.          *)
thenMessage(t)   == IF t.err # Nil THEN t ELSE setMessage(t.rule)
thenExpr(m)      == IF m.err # Nil THEN m ELSE setExpr(m.rule)
thenReceivers(e) == IF e.err # Nil THEN e ELSE setReceivers(e.rule)
thenLevels(c)    == IF c.err # Nil THEN c ELSE [err |-> checkAlertLevels(c.rule), rule |-> c.rule]
getAlertRuleReq(r) == thenLevels(thenReceivers(thenExpr(thenMessage(setTpl(r)))))

---------------------------------------------------------------------------
(* The requests of the model: the rule as bound by BindJSON, with cluster, *)
(* namespace and alert type taken from the path.                           *)
Receiver(id, interval) ==
    [AlertChannelID |-> id, Interval |-> interval, AlertRuleID |-> 0, AlertChannel |-> <<>>]
Level(sev, op, val) == [Severity |-> sev, CompareOp |-> op, CompareValue |-> val]
PromqlGen(rule, ms, unit) ==
    [Rule |-> rule, LabelMatchers |-> ms, Unit |-> unit, Tpl |-> <<>>]
LogqlGen(dur, match, ms) == [Duration |-> dur, Match |-> match, LabelMatchers |-> ms]

PodMatcher == LabelMatcher("pod", "=~", "web")

(* high-cpu in team-a from the node cpu usage template, one matcher, one   *)
(* level, the default channel only.                                        *)
BaseReq ==
    [ID |-> 0, Name |-> "high-cpu", Namespace |-> "team-a",
     AlertType |-> AlertTypeMonitor, Expr |-> <<>>, Message |-> <<>>, For |-> "1m",
     PromqlGenerator |-> <<PromqlGen("usage", <<PodMatcher>>, "percent")>>,
     LogqlGenerator |-> <<>>,
     Receivers |-> <<Receiver(DefaultChannelID, "1m")>>,
     AlertLevels |-> <<Level("critical", ">", "80")>>,
     InhibitLabels |-> <<>>]

Namespaces == {"", GlobalAlertNamespace, "team-a"}
Matchers ==
    {PodMatcher, LabelMatcher("node", "!=", "n1"),
     LabelMatcher("namespace", "=", "team-a"), LabelMatcher("namespace", "!=", "other")}
MatcherLists == SeqsUpTo(Matchers, MaxMatchers)

(* Expressions a caller may send.                                          *)
ExprWithNamespace == <<"up", "{", "namespace", "=", "team-a", "}">>
ExprNoNamespace   == <<"up">>
ExprUnparsable    == <<"up", "{", "namespace", "=", "team-a">>
ExprWithOp        == <<"up", "{", "namespace", "=~", "team-a", "}", ">", "80">>
CallerExprs ==
    {<<>>, ExprWithNamespace, ExprNoNamespace, ExprUnparsable, ExprWithOp}

Durations ==
    { <<"10", "m">>, <<"11", "m">>, <<"10", "m", "1", "s">>, <<"9", "m", "59", "s">>,
      <<"600", "s">>, <<"601", "s">>, <<"1", "h">>, <<"0">>, <<>>, <<"m">>,
      <<"1", "s", "1", "m">> }
Matches == { <<"error">>, <<"[">>, <<"a", ">", "b">> }

PromqlGens ==
    {PromqlGen(r, ms, "percent") : r \in TplRules \cup {"missing"}, ms \in MatcherLists}
LogqlGens ==
    {LogqlGen(d, <<"error">>, <<PodMatcher>>) : d \in Durations}
    \cup {LogqlGen(<<"10", "m">>, m, ms) : m \in Matches, ms \in MatcherLists}

(* Requests that vary what setExpr reads.                                  *)
ExprRequests ==
    {[BaseReq EXCEPT !.Namespace = ns, !.Expr = e, !.PromqlGenerator = <<>>, !.AlertType = t] :
        ns \in Namespaces, e \in CallerExprs, t \in {AlertTypeMonitor, AlertTypeLogging}}
    \cup {[BaseReq EXCEPT !.Namespace = ns, !.Expr = e, !.PromqlGenerator = <<g>>] :
        ns \in Namespaces, e \in {<<>>, ExprWithOp}, g \in PromqlGens}
    \cup {[BaseReq EXCEPT !.Namespace = ns, !.Expr = e, !.PromqlGenerator = <<>>,
                          !.LogqlGenerator = <<g>>, !.AlertType = AlertTypeLogging] :
        ns \in Namespaces, e \in {<<>>, ExprWithOp}, g \in LogqlGens}

(* Requests that vary what setMessage reads.                               *)
MessageRequests ==
    {[BaseReq EXCEPT !.Message = m, !.PromqlGenerator = <<PromqlGen("usage", <<PodMatcher>>, u)>>] :
        m \in {<<>>, <<"custom message">>}, u \in {"percent", "bytes", "parsec"}}
    \cup {[BaseReq EXCEPT !.Message = m, !.PromqlGenerator = <<>>, !.Expr = ExprWithNamespace,
                          !.LogqlGenerator = lg, !.AlertType = t] :
        m \in {<<>>, <<"custom message">>}, t \in {AlertTypeMonitor, AlertTypeLogging},
        lg \in {<<>>, <<LogqlGen(<<"10", "m">>, <<"error">>, <<PodMatcher>>)>>}}

(* Requests that vary what setReceivers reads.                             *)
ReceiverInputs == {Receiver(id, i) : id \in {1, 2, 3, 4}, i \in {"1m", "5m"}}
ReceiverRequests ==
    {[BaseReq EXCEPT !.Receivers = rs] : rs \in SeqsUpTo(ReceiverInputs, MaxReceivers)}

(* Requests that vary what checkAlertLevels reads.                         *)
LevelInputs ==
    {Level(s, ">", v) : s \in {"critical", "warning"}, v \in {"80", "60"}}
LevelRequests ==
    {[BaseReq EXCEPT !.AlertLevels = ls, !.InhibitLabels = il] :
        ls \in SeqsUpTo(LevelInputs, MaxLevels), il \in {<<>>, <<"pod">>}}

Requests == ExprRequests \cup MessageRequests \cup ReceiverRequests \cup LevelRequests

---------------------------------------------------------------------------
(* The request pipeline, one action per step of getAlertRuleReq.           *)
ReqInit ==
    /\ req \in Requests
    /\ bound = req
    /\ pc = "tpl"
    /\ failedAt = ""
    /\ err = Nil
    /\ again = <<>>

(* One step: res is the step's [err, rule]; an error ends the request.     *)
Step(name, res, next) ==
    /\ pc = name
    /\ req' = res.rule
    /\ err' = res.err
    /\ pc' = IF res.err # Nil THEN "failed" ELSE next
    /\ failedAt' = IF res.err # Nil THEN name ELSE ""
    /\ UNCHANGED <<bound, again>>

SetTpl == Step("tpl", setTpl(req), "message") /\ UNCHANGED <<syncVars, storeVars, restVars>>

SetMessage == Step("message", setMessage(req), "expr") /\ UNCHANGED <<syncVars, storeVars, restVars>>

SetExpr == Step("expr", setExpr(req), "receivers") /\ UNCHANGED <<syncVars, storeVars, restVars>>

SetReceivers == Step("receivers", setReceivers(req), "levels") /\ UNCHANGED <<syncVars, storeVars, restVars>>

CheckAlertLevels ==
    /\ Step("levels", [err |-> checkAlertLevels(req), rule |-> req], "ok")
    /\ UNCHANGED <<syncVars, storeVars, restVars>>

(* setExpr run once more on the derived rule, as the next request that     *)
(* carries the same generator does.                                        *)
Recompile ==
    /\ pc = "ok"
    /\ again' = <<setExpr(req)>>
    /\ pc' = "recompiled"
    /\ UNCHANGED <<req, bound, failedAt, err>>
    /\ UNCHANGED <<syncVars, storeVars, restVars>>

---------------------------------------------------------------------------
(* The remote resources and syncMonitorAlertRule.                          *)
AlertNamespaceLabel == "gems_namespace"
AlertNameLabel      == "gems_alertname"
SeverityLabel       == "severity"
SeverityCritical    == "critical"
SeverityError       == "error"
NullReceiverName    == "null"
NullReceiver        == [Name |-> NullReceiverName, Kind |-> "null"]

(* AlertChannel.ReceiverName, channels.EmailSecretKey and                  *)
(* AlertChannel.ToAlertmanagerReceiver.                                    *)
ReceiverName(ch) == ch.Name
EmailSecretKey(recName, from) == <<recName, from>>
ToAlertmanagerReceiver(ch) == [Name |-> ReceiverName(ch), Kind |-> ch.Kind]

(* The emails map of syncEmailSecret: receiver name -> email channel, the  *)
(* last receiver of a name winning.                                        *)
EmailChannels(alertrule) ==
    LET recs  == alertrule.Receivers
        email == {i \in 1..Len(recs) : recs[i].AlertChannel[1].Kind = "email"}
        last  == {i \in email :
                    \A j \in email : ReceiverName(recs[j].AlertChannel[1])
                                       = ReceiverName(recs[i].AlertChannel[1]) => j <= i}
    IN  {recs[i].AlertChannel[1] : i \in last}

(* sec.Data[key] = value for every new entry.                              *)
putAll(sec, new) ==
    [sec EXCEPT !.Data = {e \in @ : \A n \in new : n.key # e.key} \cup new]

(* Variant that keys every entry by the receiver name alone.               *)
mutateEmailSecretKeyedByName(alertrule, existing) ==
    putAll(IF existing = <<>> THEN [Type |-> "Opaque", Data |-> {}] ELSE existing[1],
           {[key |-> EmailSecretKey(ReceiverName(ch), ""), val |-> ch.AuthPassword] :
                ch \in EmailChannels(alertrule)})

(* Variant that replaces the entries of the Secret by those of the rule.   *)
mutateEmailSecretReplacing(alertrule, existing) ==
    [Type |-> "Opaque",
     Data |-> {[key |-> EmailSecretKey(ReceiverName(ch), ch.From), val |-> ch.AuthPassword] :
                ch \in EmailChannels(alertrule)}]

(* syncEmailSecret's mutate function on the fetched (or new) Secret.       *)
mutateEmailSecret(alertrule, existing) ==
    putAll(IF existing = <<>> THEN [Type |-> "Opaque", Data |-> {}] ELSE existing[1],
           {[key |-> EmailSecretKey(ReceiverName(ch), ch.From), val |-> ch.AuthPassword] :
                ch \in EmailChannels(alertrule)})

(* Variant that builds the rule of the first level only.                   *)
RuleGroupFirstLevel(alertrule) ==
    [Name  |-> alertrule.Name,
     Rules |-> [i \in 1..1 |->
        [Alert |-> alertrule.Name,
         Expr  |-> alertrule.Expr \o <<alertrule.AlertLevels[i].CompareOp,
                                       alertrule.AlertLevels[i].CompareValue>>,
         For   |-> alertrule.For,
         Labels |-> [namespace |-> alertrule.Namespace, name |-> alertrule.Name,
                     severity |-> alertrule.AlertLevels[i].Severity],
         Annotations |-> [message |-> alertrule.Message, value |-> ValueAnnotationExpr]]]]

(* The rule group syncPrometheusRule builds: one rule per level.           *)
RuleGroup(alertrule) ==
    [Name  |-> alertrule.Name,
     Rules |-> [i \in 1..Len(alertrule.AlertLevels) |->
        [Alert |-> alertrule.Name,
         Expr  |-> alertrule.Expr \o <<alertrule.AlertLevels[i].CompareOp,
                                       alertrule.AlertLevels[i].CompareValue>>,
         For   |-> alertrule.For,
         Labels |-> [namespace |-> alertrule.Namespace, name |-> alertrule.Name,
                     severity |-> alertrule.AlertLevels[i].Severity],
         Annotations |-> [message |-> alertrule.Message, value |-> ValueAnnotationExpr]]]]

(* Variant that appends the group to the groups already there.             *)
mutatePrometheusRuleAppending(alertrule, existing) ==
    IF existing = <<>>
    THEN [Labels |-> [type |-> AlertTypeMonitor, name |-> alertrule.Name],
          Groups |-> <<RuleGroup(alertrule)>>]
    ELSE [existing[1] EXCEPT !.Groups = Append(@, RuleGroup(alertrule))]

(* syncPrometheusRule's mutate function: the groups are replaced.          *)
mutatePrometheusRule(alertrule, existing) ==
    LET prule == IF existing = <<>>
                 THEN [Labels |-> [type |-> AlertTypeMonitor, name |-> alertrule.Name],
                       Groups |-> <<>>]
                 ELSE existing[1]
    IN  [prule EXCEPT !.Groups = <<RuleGroup(alertrule)>>]

RuleMatchers(alertrule) ==
    << [Name |-> AlertNamespaceLabel, Value |-> alertrule.Namespace],
       [Name |-> AlertNameLabel, Value |-> alertrule.Name] >>

(* The sub-route of one receiver.                                          *)
ReceiverRoute(alertrule, rec) ==
    [Receiver |-> ReceiverName(rec.AlertChannel[1]),
     RepeatInterval |-> rec.Interval,
     Continue |-> TRUE,
     Matchers |-> RuleMatchers(alertrule)]

(* The inhibit rule added when inhibit labels are set.                     *)
InhibitRules(alertrule) ==
    IF Len(alertrule.InhibitLabels) > 0
    THEN << [SourceMatch |-> RuleMatchers(alertrule)
                             \o <<[Name |-> SeverityLabel, Value |-> SeverityCritical]>>,
             TargetMatch |-> RuleMatchers(alertrule)
                             \o <<[Name |-> SeverityLabel, Value |-> SeverityError]>>,
             Equal |-> alertrule.InhibitLabels \o <<AlertNamespaceLabel, AlertNameLabel>>] >>
    ELSE <<>>

(* Variant that leaves the inhibit rules as they were.                     *)
mutateAlertmanagerConfigKeepingInhibit(alertrule, existing) ==
    LET amcfg == IF existing = <<>>
                 THEN [Labels |-> [type |-> AlertTypeMonitor, name |-> alertrule.Name],
                       Route |-> <<>>, Receivers |-> <<>>, InhibitRules |-> <<>>]
                 ELSE existing[1]
        recs  == alertrule.Receivers
    IN  [amcfg EXCEPT
            !.Route = <<[Receiver |-> NullReceiverName,
                         GroupBy |-> <<AlertNamespaceLabel, AlertNameLabel>>,
                         Routes |-> [i \in 1..Len(recs) |-> ReceiverRoute(alertrule, recs[i])]]>>,
            !.Receivers = <<NullReceiver>>
                 \o [i \in 1..Len(recs) |-> ToAlertmanagerReceiver(recs[i].AlertChannel[1])]]

(* Variant that appends the sub-routes and receivers to those already      *)
(* there.                                                                  *)
mutateAlertmanagerConfigAppending(alertrule, existing) ==
    IF existing = <<>>
    THEN [Labels |-> [type |-> AlertTypeMonitor, name |-> alertrule.Name],
          Route |-> <<[Receiver |-> NullReceiverName,
                       GroupBy |-> <<AlertNamespaceLabel, AlertNameLabel>>,
                       Routes |-> [i \in 1..Len(alertrule.Receivers) |->
                                    ReceiverRoute(alertrule, alertrule.Receivers[i])]]>>,
          Receivers |-> <<NullReceiver>>
                 \o [i \in 1..Len(alertrule.Receivers) |->
                        ToAlertmanagerReceiver(alertrule.Receivers[i].AlertChannel[1])],
          InhibitRules |-> InhibitRules(alertrule)]
    ELSE [existing[1] EXCEPT
            !.Route = <<[@[1] EXCEPT !.Routes = @ \o
                            [i \in 1..Len(alertrule.Receivers) |->
                                ReceiverRoute(alertrule, alertrule.Receivers[i])]]>>,
            !.Receivers = @ \o [i \in 1..Len(alertrule.Receivers) |->
                        ToAlertmanagerReceiver(alertrule.Receivers[i].AlertChannel[1])],
            !.InhibitRules = InhibitRules(alertrule)]

(* syncAlertmanagerConfig's mutate function: the whole spec is rebuilt.    *)
mutateAlertmanagerConfig(alertrule, existing) ==
    LET amcfg == IF existing = <<>>
                 THEN [Labels |-> [type |-> AlertTypeMonitor, name |-> alertrule.Name],
                       Route |-> <<>>, Receivers |-> <<>>, InhibitRules |-> <<>>]
                 ELSE existing[1]
        recs  == alertrule.Receivers
    IN  [amcfg EXCEPT
            !.Route = <<[Receiver |-> NullReceiverName,
                         GroupBy |-> <<AlertNamespaceLabel, AlertNameLabel>>,
                         Routes |-> [i \in 1..Len(recs) |-> ReceiverRoute(alertrule, recs[i])]]>>,
            !.Receivers = <<NullReceiver>>
                 \o [i \in 1..Len(recs) |-> ToAlertmanagerReceiver(recs[i].AlertChannel[1])],
            !.InhibitRules = InhibitRules(alertrule)]

(* The order of the stages of syncMonitorAlertRule and the text each       *)
(* failure is wrapped with.                                                *)
StageOrder == <<"secret", "prometheusrule", "alertmanagerconfig">>
StageWrap(stage) ==
    CASE stage = "secret" -> "sync secret failed"
      [] stage = "prometheusrule" -> "sync prometheusrule failed"
      [] stage = "alertmanagerconfig" -> "sync alertmanagerconfig failed"

NoErr == [wrap |-> "", cause |-> ""]

(* Variant that goes on to the next stage whatever the stage returned.     *)
afterStageContinuing(stage, e) ==
    CASE stage = "client" -> "secret"
      [] stage = "secret" -> "prometheusrule"
      [] stage = "prometheusrule" -> "alertmanagerconfig"
      [] stage = "alertmanagerconfig" -> "done"

(* Control flow of syncMonitorAlertRule after a stage returned e: an error *)
(* returns at once, success goes on to the next stage.                     *)
afterStage(stage, e) ==
    IF e # NoErr THEN "done"
    ELSE CASE stage = "client" -> "secret"
           [] stage = "secret" -> "prometheusrule"
           [] stage = "prometheusrule" -> "alertmanagerconfig"
           [] stage = "alertmanagerconfig" -> "done"

(* The rules handed to syncMonitorAlertRule: requests that passed          *)
(* getAlertRuleReq.                                                        *)
SyncRequests ==
    { BaseReq,
      [BaseReq EXCEPT !.Receivers = <<Receiver(2, "5m")>>,
                      !.AlertLevels = <<Level("critical", ">", "80"), Level("warning", ">", "60")>>,
                      !.InhibitLabels = <<"pod">>],
      [BaseReq EXCEPT !.Name = "mem-high", !.Receivers = <<Receiver(4, "1m"), Receiver(1, "5m")>>],
      [BaseReq EXCEPT !.Namespace = GlobalAlertNamespace, !.Receivers = <<Receiver(2, "1m")>>,
                      !.InhibitLabels = <<"pod">>] }
SyncRules == {getAlertRuleReq(q).rule : q \in {x \in SyncRequests : getAlertRuleReq(x).err = Nil}}
SyncNamespaces == {r.Namespace : r \in SyncRules}
SyncKeys == {<<r.Namespace, r.Name>> : r \in SyncRules}

IdleCall == [pc |-> "idle", rule |-> <<>>, err |-> NoErr, attempted |-> <<>>, repeat |-> FALSE]

SyncInit ==
    /\ secrets = [ns \in SyncNamespaces |-> <<>>]
    /\ prules = [k \in SyncKeys |-> <<>>]
    /\ amcfgs = [k \in SyncKeys |-> <<>>]
    /\ call = IdleCall
    /\ prev = <<>>

Remote == <<secrets, prules, amcfgs>>

(* A create or update request enters syncMonitorAlertRule with its rule.   *)
StartSync ==
    /\ call.pc \in {"idle", "done"}
    /\ \E r \in SyncRules :
        /\ call' = [pc |-> "client", rule |-> <<r>>, err |-> NoErr, attempted |-> <<>>,
                    repeat |-> (prev # <<>> /\ prev[1].rule = r)]
        /\ prev' = IF prev # <<>> /\ prev[1].rule = r THEN prev ELSE <<>>
    /\ UNCHANGED <<secrets, prules, amcfgs>>
    /\ UNCHANGED <<reqVars, storeVars, restVars>>

(* h.GetAgents().ClientOf: its error is returned as it is.                 *)
ClientOf ==
    /\ call.pc = "client"
    /\ \E e \in {NoErr, [wrap |-> "", cause |-> "no client"]} :
        call' = [call EXCEPT !.pc = afterStage("client", e), !.err = e]
    /\ UNCHANGED <<secrets, prules, amcfgs, prev>>
    /\ UNCHANGED <<reqVars, storeVars, restVars>>

(* What a stage leaves in call: the stage is recorded as attempted, a      *)
(* failure is wrapped with the stage's text.                               *)
StageResult(stage, failed) ==
    LET e == IF failed THEN [wrap |-> StageWrap(stage), cause |-> "apply failed"] ELSE NoErr
    IN  [call EXCEPT !.pc = afterStage(stage, e),
                     !.err = IF failed THEN e ELSE @,
                     !.attempted = Append(@, stage)]

(* The first sync of a rule returned nil: remember the rule and what it    *)
(* left; a repeated sync keeps what the first one left.                    *)
Completed(c, remote) ==
    IF c.pc = "done" /\ c.err = NoErr /\ ~c.repeat
    THEN <<[rule |-> c.rule[1], remote |-> remote]>>
    ELSE prev

(* controllerutil.CreateOrUpdate of the namespace's email Secret.          *)
SyncEmailSecret ==
    /\ call.pc = "secret"
    /\ LET r == call.rule[1] IN
       \E failed \in BOOLEAN :
        /\ secrets' = IF failed THEN secrets
                      ELSE [secrets EXCEPT ![r.Namespace] = <<mutateEmailSecret(r, @)>>]
        /\ call' = StageResult("secret", failed)
        /\ prev' = Completed(call', <<secrets', prules, amcfgs>>)
    /\ UNCHANGED <<prules, amcfgs>>
    /\ UNCHANGED <<reqVars, storeVars, restVars>>

(* controllerutil.CreateOrUpdate of the rule's PrometheusRule.             *)
SyncPrometheusRule ==
    /\ call.pc = "prometheusrule"
    /\ LET r == call.rule[1] IN
       \E failed \in BOOLEAN :
        /\ prules' = IF failed THEN prules
                     ELSE [prules EXCEPT ![<<r.Namespace, r.Name>>] = <<mutatePrometheusRule(r, @)>>]
        /\ call' = StageResult("prometheusrule", failed)
        /\ prev' = Completed(call', <<secrets, prules', amcfgs>>)
    /\ UNCHANGED <<secrets, amcfgs>>
    /\ UNCHANGED <<reqVars, storeVars, restVars>>

(* controllerutil.CreateOrUpdate of the rule's AlertmanagerConfig.         *)
SyncAlertmanagerConfig ==
    /\ call.pc = "alertmanagerconfig"
    /\ LET r == call.rule[1] IN
       \E failed \in BOOLEAN :
        /\ amcfgs' = IF failed THEN amcfgs
                     ELSE [amcfgs EXCEPT ![<<r.Namespace, r.Name>>] = <<mutateAlertmanagerConfig(r, @)>>]
        /\ call' = StageResult("alertmanagerconfig", failed)
        /\ prev' = Completed(call', <<secrets, prules, amcfgs'>>)
    /\ UNCHANGED <<secrets, prules>>
    /\ UNCHANGED <<reqVars, storeVars, restVars>>

---------------------------------------------------------------------------
(* The alert_rules table, the request slots and the handlers' requests.    *)
MaxOps == 3
Procs  == {1, 2}

KeyOf(r) == <<r.Namespace, r.Name>>

(* A row: the rule as saved and its state column.                          *)
Row(r, state) == [rule |-> r, State |-> state]
RowsOfKey(rows, key) == {row \in rows : KeyOf(row.rule) = key}

ErrOf(cause) == [wrap |-> "", cause |-> cause]
ErrStorage      == ErrOf("storage failure")
ErrNoClient     == ErrOf("no client")
ErrAlreadyExist == ErrOf("alert rule is already exist")
ErrRuleID       == ErrOf("alert rule id is empty")
ErrReceiverID   == ErrOf("alert rule id in receiver is empty")
ErrBackend      == ErrOf("get prometheus alert rules failed")
ErrQuery        == ErrOf("query not valid")
ErrDelete       == ErrOf("delete failed")

(* A request slot: the handler (op) and its position (pc), the body as     *)
(* bound (history), the rule in hand, the answer (err, out), the           *)
(* transaction's uncommitted writes (pending), the sync stages applied,    *)
(* the remote delete responses seen, and the listing's rows and snapshot.  *)
IdleProc ==
    [op |-> "idle", pc |-> "idle", body |-> <<>>, rule |-> <<>>, err |-> NoErr,
     pending |-> <<>>, applied |-> <<>>, seen |-> <<>>, retried |-> FALSE,
     found |-> <<>>, snap |-> {}, out |-> {}]

StoreInit ==
    /\ store = {}
    /\ nextID = 1
    /\ silences = {}
    /\ proc = [p \in Procs |-> IdleProc]
    /\ ops = 0

(* The request bodies of the store model: the rules of namespace team-a,   *)
(* a body that names the default channel among two receivers, and two      *)
(* bodies getAlertRuleReq refuses.                                         *)
StoreRequests == {q \in SyncRequests : q.Namespace = "team-a"}
EscalatedReq ==
    [BaseReq EXCEPT !.Receivers = <<Receiver(2, "5m"), Receiver(DefaultChannelID, "5m")>>,
                    !.AlertLevels = <<Level("critical", ">", "80"), Level("warning", ">", "60")>>,
                    !.InhibitLabels = <<"pod">>]
RefusedRequests ==
    { [BaseReq EXCEPT !.PromqlGenerator = <<PromqlGen("missing", <<PodMatcher>>, "percent")>>],
      [BaseReq EXCEPT !.Receivers = <<Receiver(3, "1m")>>] }
CreateRequests == StoreRequests \cup RefusedRequests

(* An update body: the rule's ID and the owning-rule ID of its receivers.  *)
WithID(q, id) ==
    [q EXCEPT !.ID = id,
              !.Receivers = [i \in 1..Len(q.Receivers) |->
                                [q.Receivers[i] EXCEPT !.AlertRuleID = id]]]
(* The body of BaseReq sent to the path of the global namespace.           *)
MovedReq == [BaseReq EXCEPT !.Namespace = GlobalAlertNamespace]
UpdateRequests ==
    {WithID(q, 1) : q \in StoreRequests \cup {EscalatedReq, MovedReq}}
    \cup {WithID(BaseReq, 0), WithID(EscalatedReq, 2)}
    \cup {WithID(q, 1) : q \in RefusedRequests}

(* A handler may start in a slot that is idle or has answered.             *)
CanStart(p) == proc[p].pc \in {"idle", "done"} /\ ops < MaxOps

(* The request repeats the slot's last one, which a sync stage failed.     *)
IsRetry(slot, op, q) == slot.op = op /\ slot.body = <<q>> /\ slot.err.wrap # ""

(* Variant that goes on to the transaction whatever getAlertRuleReq        *)
(* returned.                                                               *)
StartedRegardless(op, q, res, retry) ==
    [IdleProc EXCEPT !.op = op, !.body = <<q>>, !.pc = "tx", !.rule = <<res.rule>>,
                     !.retried = retry]

(* The slot after getAlertRuleReq returned res for the body q: an error    *)
(* answers the request, a rule goes on to the transaction.                 *)
Started(op, q, res, retry) ==
    IF res.err # Nil
    THEN [IdleProc EXCEPT !.op = op, !.body = <<q>>, !.pc = "done", !.err = ErrOf(res.err)]
    ELSE [IdleProc EXCEPT !.op = op, !.body = <<q>>, !.pc = "tx", !.rule = <<res.rule>>,
                          !.retried = retry]

(* Variant in which the transaction commits although the closure returned  *)
(* e.                                                                      *)
RolledBackCommitting(slot, e) == [slot EXCEPT !.pc = "commit", !.err = e]

(* The transaction closure returned e: the pending writes are rolled back. *)
RolledBack(slot, e) == [slot EXCEPT !.pc = "done", !.err = e, !.pending = <<>>]

(* The rows after the transaction's pending writes are committed.          *)
Committed(rows, pending) ==
    IF pending = <<>> THEN rows
    ELSE IF pending[1].kind = "delete"
    THEN {row \in rows : row.rule.ID # pending[1].row.rule.ID}
    ELSE {row \in rows : row.rule.ID # pending[1].row.rule.ID} \cup {pending[1].row}

(* The state column of a row written from a request body: the body's       *)
(* zero value.                                                             *)
StateUnset == ""

---------------------------------------------------------------------------
(* CreateMonitorAlertRule and UpdateMonitorAlertRule.                      *)

CreateRequest(p) ==
    /\ CanStart(p)
    /\ \E q \in CreateRequests :
        proc' = [proc EXCEPT ![p] =
                    Started("create", q, getAlertRuleReq(q), IsRetry(proc[p], "create", q))]
    /\ ops' = ops + 1
    /\ UNCHANGED <<store, nextID, silences, secrets, prules, amcfgs>>
    /\ UNCHANGED <<reqVars, call, prev, restVars>>

(* Variant that checks the ID of the rule only.                            *)
checkUpdateIDsRuleOnly(slot) ==
    IF slot.pc = "done" THEN slot
    ELSE IF slot.rule[1].ID = 0
    THEN [slot EXCEPT !.pc = "done", !.err = ErrRuleID]
    ELSE slot

(* The ID checks of UpdateMonitorAlertRule on the derived rule.            *)
checkUpdateIDs(slot) ==
    IF slot.pc = "done" THEN slot
    ELSE IF slot.rule[1].ID = 0
    THEN [slot EXCEPT !.pc = "done", !.err = ErrRuleID]
    ELSE IF \E i \in 1..Len(slot.rule[1].Receivers) : slot.rule[1].Receivers[i].AlertRuleID = 0
    THEN [slot EXCEPT !.pc = "done", !.err = ErrReceiverID]
    ELSE slot

UpdateRequest(p) ==
    /\ CanStart(p)
    /\ \E q \in UpdateRequests :
        proc' = [proc EXCEPT ![p] =
                    checkUpdateIDs(Started("update", q, getAlertRuleReq(q),
                                           IsRetry(proc[p], "update", q)))]
    /\ ops' = ops + 1
    /\ UNCHANGED <<store, nextID, silences, secrets, prules, amcfgs>>
    /\ UNCHANGED <<reqVars, call, prev, restVars>>

(* Variant without the existence check.                                    *)
AlreadyExistsNever(rows, rule) == FALSE

(* tx.Find by cluster, namespace and name; len(allRules) > 0.              *)
AlreadyExists(rows, rule) == RowsOfKey(rows, KeyOf(rule)) # {}

(* The slot after tx.Create: the row is written in the transaction with    *)
(* the next auto-increment ID.                                             *)
Inserted(slot, id) ==
    [slot EXCEPT !.rule = <<[slot.rule[1] EXCEPT !.ID = id]>>,
                 !.pending = <<[kind |-> "create",
                                row |-> Row([slot.rule[1] EXCEPT !.ID = id], StateUnset)]>>,
                 !.pc = "client"]

(* The existence check and tx.Create of CreateMonitorAlertRule.            *)
TxCreate(p) ==
    /\ proc[p].op = "create" /\ proc[p].pc = "tx"
    /\ \E dbErr \in BOOLEAN :
        IF dbErr
        THEN /\ proc' = [proc EXCEPT ![p] = RolledBack(proc[p], ErrStorage)]
             /\ UNCHANGED nextID
        ELSE IF AlreadyExists(store, proc[p].rule[1])
        THEN /\ proc' = [proc EXCEPT ![p] = RolledBack(proc[p], ErrAlreadyExist)]
             /\ UNCHANGED nextID
        ELSE /\ proc' = [proc EXCEPT ![p] = Inserted(proc[p], nextID)]
             /\ nextID' = nextID + 1
    /\ UNCHANGED <<store, silences, ops, secrets, prules, amcfgs>>
    /\ UNCHANGED <<reqVars, call, prev, restVars>>

(* tx.Save of UpdateMonitorAlertRule: the row of the rule's ID is written  *)
(* in the transaction, inserted when there is none.                        *)
TxSave(p) ==
    /\ proc[p].op = "update" /\ proc[p].pc = "tx"
    /\ \E dbErr \in BOOLEAN :
        IF dbErr
        THEN /\ proc' = [proc EXCEPT ![p] = RolledBack(proc[p], ErrStorage)]
             /\ UNCHANGED nextID
        ELSE /\ proc' = [proc EXCEPT ![p].pending =
                            <<[kind |-> "save", row |-> Row(proc[p].rule[1], StateUnset)]>>,
                                     ![p].pc = "client"]
             /\ nextID' = IF proc[p].rule[1].ID >= nextID THEN proc[p].rule[1].ID + 1
                          ELSE nextID
    /\ UNCHANGED <<store, silences, ops, secrets, prules, amcfgs>>
    /\ UNCHANGED <<reqVars, call, prev, restVars>>

(* syncMonitorAlertRule inside the transaction closure: a stage that       *)
(* failed returns its wrapped error and the transaction rolls back; after  *)
(* the last stage the closure returns nil.                                 *)
TxStage(slot, stage, failed) ==
    IF failed
    THEN RolledBack(slot, IF stage = "client" THEN ErrNoClient
                          ELSE [wrap |-> StageWrap(stage), cause |-> "apply failed"])
    ELSE [slot EXCEPT !.pc = IF afterStage(stage, NoErr) = "done" THEN "commit"
                             ELSE afterStage(stage, NoErr),
                      !.applied = IF stage = "client" THEN @ ELSE Append(@, stage)]

InSync(p, stage) == proc[p].op \in {"create", "update"} /\ proc[p].pc = stage

TxClientOf(p) ==
    /\ InSync(p, "client")
    /\ \E failed \in BOOLEAN :
        proc' = [proc EXCEPT ![p] = TxStage(proc[p], "client", failed)]
    /\ UNCHANGED <<store, nextID, silences, ops, secrets, prules, amcfgs>>
    /\ UNCHANGED <<reqVars, call, prev, restVars>>

TxSyncEmailSecret(p) ==
    /\ InSync(p, "secret")
    /\ \E failed \in BOOLEAN :
        /\ secrets' = IF failed THEN secrets
                      ELSE [secrets EXCEPT ![proc[p].rule[1].Namespace] =
                                <<mutateEmailSecret(proc[p].rule[1], @)>>]
        /\ proc' = [proc EXCEPT ![p] = TxStage(proc[p], "secret", failed)]
    /\ UNCHANGED <<store, nextID, silences, ops, prules, amcfgs>>
    /\ UNCHANGED <<reqVars, call, prev, restVars>>

TxSyncPrometheusRule(p) ==
    /\ InSync(p, "prometheusrule")
    /\ \E failed \in BOOLEAN :
        /\ prules' = IF failed THEN prules
                     ELSE [prules EXCEPT ![KeyOf(proc[p].rule[1])] =
                                <<mutatePrometheusRule(proc[p].rule[1], @)>>]
        /\ proc' = [proc EXCEPT ![p] = TxStage(proc[p], "prometheusrule", failed)]
    /\ UNCHANGED <<store, nextID, silences, ops, secrets, amcfgs>>
    /\ UNCHANGED <<reqVars, call, prev, restVars>>

TxSyncAlertmanagerConfig(p) ==
    /\ InSync(p, "alertmanagerconfig")
    /\ \E failed \in BOOLEAN :
        /\ amcfgs' = IF failed THEN amcfgs
                     ELSE [amcfgs EXCEPT ![KeyOf(proc[p].rule[1])] =
                                <<mutateAlertmanagerConfig(proc[p].rule[1], @)>>]
        /\ proc' = [proc EXCEPT ![p] = TxStage(proc[p], "alertmanagerconfig", failed)]
    /\ UNCHANGED <<store, nextID, silences, ops, secrets, prules>>
    /\ UNCHANGED <<reqVars, call, prev, restVars>>

(* The closure returned nil: the transaction commits and the handler       *)
(* answers ok.                                                             *)
Commit(p) ==
    /\ proc[p].pc = "commit"
    /\ store' = Committed(store, proc[p].pending)
    /\ proc' = [proc EXCEPT ![p].pc = "done", ![p].pending = <<>>]
    /\ UNCHANGED <<nextID, silences, ops, secrets, prules, amcfgs>>
    /\ UNCHANGED <<reqVars, call, prev, restVars>>

---------------------------------------------------------------------------
(* DeleteMonitorAlertRule and deleteMonitorAlertRule.                      *)
StoreKeys == {KeyOf(q) : q \in StoreRequests}

(* The handler answers e without a transaction to roll back.               *)
Answered(slot, e) == [slot EXCEPT !.pc = "done", !.err = e]

DeleteRequest(p) ==
    /\ CanStart(p)
    /\ \E key \in StoreKeys :
        proc' = [proc EXCEPT ![p] =
                    [IdleProc EXCEPT !.op = "delete", !.pc = "tx", !.body = <<key>>,
                                     !.rule = <<[Namespace |-> key[1], Name |-> key[2],
                                                 ID |-> 0]>>]]
    /\ ops' = ops + 1
    /\ UNCHANGED <<store, nextID, silences, secrets, prules, amcfgs>>
    /\ UNCHANGED <<reqVars, call, prev, restVars>>

(* tx.First: the row of the lowest primary key among the matching rows.    *)
FirstRow(rows) == CHOOSE row \in rows : \A o \in rows : row.rule.ID <= o.rule.ID

(* The slot after tx.First loaded row and tx.Delete deleted it in the      *)
(* transaction.                                                            *)
Deleting(slot, row) ==
    [slot EXCEPT !.rule = <<row.rule>>,
                 !.pending = <<[kind |-> "delete", row |-> row]>>,
                 !.pc = "dclient"]

TxDelete(p) ==
    /\ proc[p].op = "delete" /\ proc[p].pc = "tx"
    /\ \E dbErr \in BOOLEAN :
        proc' = [proc EXCEPT ![p] =
            IF dbErr THEN RolledBack(proc[p], ErrStorage)
            ELSE IF RowsOfKey(store, KeyOf(proc[p].rule[1])) = {}
            THEN RolledBack(proc[p], ErrOf(ErrRecordNotFound))
            ELSE Deleting(proc[p], FirstRow(RowsOfKey(store, KeyOf(proc[p].rule[1]))))]
    /\ UNCHANGED <<store, nextID, silences, ops, secrets, prules, amcfgs>>
    /\ UNCHANGED <<reqVars, call, prev, restVars>>

(* Variant of the teardown order that leaves out the AlertmanagerConfig.   *)
afterDeleteSkipping(stage) ==
    CASE stage = "dclient" -> "dprule"
      [] stage = "dprule" -> "dsilence"
      [] stage = "damcfg" -> "dsilence"
      [] stage = "dsilence" -> "commit"

(* The order of deleteMonitorAlertRule; after it the closure returns and   *)
(* the transaction commits.                                                *)
afterDelete(stage) ==
    CASE stage = "dclient" -> "dprule"
      [] stage = "dprule" -> "damcfg"
      [] stage = "damcfg" -> "dsilence"
      [] stage = "dsilence" -> "commit"

(* What cli.Delete may answer for a resource that is there or not.         *)
DeleteResponses(present) == IF present THEN {"ok", "error"} ELSE {"notfound", "error"}

(* Variant that takes every error of cli.Delete as a failure.              *)
deleteFailedStrict(resp) == resp # "ok"

(* err != nil && !kerrors.IsNotFound(err)                                  *)
deleteFailed(resp) == resp # "ok" /\ resp # "notfound"

DeleteStage(slot, stage, resp) ==
    IF deleteFailed(resp)
    THEN RolledBack([slot EXCEPT !.seen = Append(@, resp)], ErrDelete)
    ELSE [slot EXCEPT !.pc = afterDelete(stage), !.seen = Append(@, resp)]

InDelete(p, stage) == proc[p].op = "delete" /\ proc[p].pc = stage

DeleteClientOf(p) ==
    /\ InDelete(p, "dclient")
    /\ \E failed \in BOOLEAN :
        proc' = [proc EXCEPT ![p] =
                    IF failed THEN RolledBack(proc[p], ErrNoClient)
                    ELSE [proc[p] EXCEPT !.pc = afterDelete("dclient")]]
    /\ UNCHANGED <<store, nextID, silences, ops, secrets, prules, amcfgs>>
    /\ UNCHANGED <<reqVars, call, prev, restVars>>

DeletePrometheusRule(p) ==
    /\ InDelete(p, "dprule")
    /\ \E resp \in DeleteResponses(prules[KeyOf(proc[p].rule[1])] # <<>>) :
        /\ prules' = IF resp = "ok" THEN [prules EXCEPT ![KeyOf(proc[p].rule[1])] = <<>>]
                     ELSE prules
        /\ proc' = [proc EXCEPT ![p] = DeleteStage(proc[p], "dprule", resp)]
    /\ UNCHANGED <<store, nextID, silences, ops, secrets, amcfgs>>
    /\ UNCHANGED <<reqVars, call, prev, restVars>>

DeleteAlertmanagerConfig(p) ==
    /\ InDelete(p, "damcfg")
    /\ \E resp \in DeleteResponses(amcfgs[KeyOf(proc[p].rule[1])] # <<>>) :
        /\ amcfgs' = IF resp = "ok" THEN [amcfgs EXCEPT ![KeyOf(proc[p].rule[1])] = <<>>]
                     ELSE amcfgs
        /\ proc' = [proc EXCEPT ![p] = DeleteStage(proc[p], "damcfg", resp)]
    /\ UNCHANGED <<store, nextID, silences, ops, secrets, prules>>
    /\ UNCHANGED <<reqVars, call, prev, restVars>>

(* deleteSilenceIfExist: the rule's silence is removed when there is one.  *)
DeleteSilence(p) ==
    /\ InDelete(p, "dsilence")
    /\ \E resp \in DeleteResponses(KeyOf(proc[p].rule[1]) \in silences) :
        /\ silences' = IF resp = "ok" THEN silences \ {KeyOf(proc[p].rule[1])} ELSE silences
        /\ proc' = [proc EXCEPT ![p] = DeleteStage(proc[p], "dsilence", resp)]
    /\ UNCHANGED <<store, nextID, ops, secrets, prules, amcfgs>>
    /\ UNCHANGED <<reqVars, call, prev, restVars>>

(* A silence is put on a stored rule (by the silence handlers).            *)
SilenceRule ==
    /\ ops < MaxOps
    /\ \E row \in store :
        /\ KeyOf(row.rule) \notin silences
        /\ silences' = silences \cup {KeyOf(row.rule)}
    /\ ops' = ops + 1
    /\ UNCHANGED <<store, nextID, proc, secrets, prules, amcfgs>>
    /\ UNCHANGED <<reqVars, call, prev, restVars>>

---------------------------------------------------------------------------
(* ListMonitorAlertRule.                                                   *)
ListNamespaces == {"team-a"}
ListStates     == {"", "firing"}

(* GetPromeAlertRules: what the backend may answer, keyed by               *)
(* RealTimeAlertKey(namespace, name).                                      *)
(* The alert instances of a firing rule, as the backend lists them.        *)
FiringAlerts(k) ==
    IF k[2] = "high-cpu"
    THEN <<[ActiveAt |-> 1], [ActiveAt |-> 3], [ActiveAt |-> 2]>>
    ELSE <<[ActiveAt |-> 2], [ActiveAt |-> 4]>>
Snapshots ==
    SUBSET {[key |-> k, State |-> "firing", Alerts |-> FiringAlerts(k)] : k \in StoreKeys}

(* sort.Slice(promalert.Alerts, ActiveAt[i].After(ActiveAt[j])).           *)
RECURSIVE InsertByActiveAt(_, _)
InsertByActiveAt(a, sorted) ==
    IF sorted = <<>> THEN <<a>>
    ELSE IF a.ActiveAt > Head(sorted).ActiveAt THEN <<a>> \o sorted
    ELSE <<Head(sorted)>> \o InsertByActiveAt(a, Tail(sorted))
RECURSIVE SortByActiveAt(_)
SortByActiveAt(alerts) ==
    IF alerts = <<>> THEN <<>>
    ELSE InsertByActiveAt(Head(alerts), SortByActiveAt(Tail(alerts)))

(* The alerts the detail request attaches from the snapshot.               *)
LiveAlerts(snap, key) ==
    IF \E e \in snap : e.key = key
    THEN SortByActiveAt((CHOOSE e \in snap : e.key = key).Alerts)
    ELSE <<>>

(* A rule as a read request answers it.                                    *)
Returned(row, state, alerts) ==
    [rule |-> row.rule, State |-> state, RealTimeAlerts |-> alerts]

(* The state the refresh loop gives a rule from the snapshot.              *)
LiveState(snap, key) ==
    IF \E e \in snap : e.key = key THEN (CHOOSE e \in snap : e.key = key).State
    ELSE "inactive"

(* alert_type = monitor and cluster = ? and namespace = ?                  *)
Listed(rows, ns) ==
    {row \in rows : row.rule.AlertType = AlertTypeMonitor /\ row.rule.Namespace = ns}

RECURSIVE RowsByID(_)
RowsByID(rows) ==
    IF rows = {} THEN <<>> ELSE <<FirstRow(rows)>> \o RowsByID(rows \ {FirstRow(rows)})

ListRequest(p) ==
    /\ CanStart(p)
    /\ \E ns \in ListNamespaces, st \in ListStates :
        proc' = [proc EXCEPT ![p] =
                    [IdleProc EXCEPT !.op = "list", !.pc = "find",
                                     !.body = <<[Namespace |-> ns, state |-> st]>>]]
    /\ ops' = ops + 1
    /\ UNCHANGED <<store, nextID, silences, secrets, prules, amcfgs>>
    /\ UNCHANGED <<reqVars, call, prev, restVars>>

(* h.Execute's client and h.GetDB().Find(&thisClusterAlerts, ...).         *)
ListFind(p) ==
    /\ proc[p].op = "list" /\ proc[p].pc = "find"
    /\ \E e \in {NoErr, ErrNoClient, ErrStorage} :
        proc' = [proc EXCEPT ![p] =
                    IF e # NoErr THEN Answered(proc[p], e)
                    ELSE [proc[p] EXCEPT !.found = RowsByID(Listed(store, proc[p].body[1].Namespace)),
                                         !.pc = "snapshot"]]
    /\ UNCHANGED <<store, nextID, silences, ops, secrets, prules, amcfgs>>
    /\ UNCHANGED <<reqVars, call, prev, restVars>>

(* cli.Extend().GetPromeAlertRules(ctx, "")                                *)
ListSnapshot(p) ==
    /\ proc[p].op = "list" /\ proc[p].pc = "snapshot"
    /\ \/ proc' = [proc EXCEPT ![p] = Answered(proc[p], ErrBackend)]
       \/ \E snap \in Snapshots :
            proc' = [proc EXCEPT ![p].snap = snap,
                                 ![p].pc = IF proc[p].found = <<>> THEN "page" ELSE "refresh"]
    /\ UNCHANGED <<store, nextID, silences, ops, secrets, prules, amcfgs>>
    /\ UNCHANGED <<reqVars, call, prev, restVars>>

(* UPDATE alert_rules SET state = ? WHERE id = v.ID                        *)
UpdateState(rows, id, state) ==
    {IF row.rule.ID = id THEN [row EXCEPT !.State = state] ELSE row : row \in rows}

(* One turn of the refresh loop: v.State is set from the snapshot and      *)
(* written to the table at once; seen counts the rows written.             *)
ListRefresh(p) ==
    /\ proc[p].op = "list" /\ proc[p].pc = "refresh"
    /\ \E failed \in BOOLEAN :
        IF failed
        THEN /\ proc' = [proc EXCEPT ![p] = Answered(proc[p], ErrStorage)]
             /\ UNCHANGED store
        ELSE /\ store' = UpdateState(store, proc[p].found[1].rule.ID,
                                     LiveState(proc[p].snap, KeyOf(proc[p].found[1].rule)))
             /\ proc' = [proc EXCEPT ![p].found = Tail(@),
                                     ![p].seen = Append(@, "ok"),
                                     ![p].pc = IF Len(proc[p].found) = 1 THEN "page"
                                               ELSE "refresh"]
    /\ UNCHANGED <<nextID, silences, ops, secrets, prules, amcfgs>>
    /\ UNCHANGED <<reqVars, call, prev, restVars>>

(* handlers.GetQuery and query.PageList: the rows are read from the table  *)
(* again, with the state filter of the request; the alerts of the snapshot *)
(* are attached to none of them.                                           *)
PageList(rows, q) ==
    {row \in Listed(rows, q.Namespace) : q.state = "" \/ row.State = q.state}

ListPage(p) ==
    /\ proc[p].op = "list" /\ proc[p].pc = "page"
    /\ \E e \in {NoErr, ErrQuery, ErrStorage} :
        proc' = [proc EXCEPT ![p] =
                    IF e # NoErr THEN Answered(proc[p], e)
                    ELSE [proc[p] EXCEPT !.out = {Returned(row, row.State, <<>>) :
                                                    row \in PageList(store, proc[p].body[1])},
                                         !.pc = "done"]]
    /\ UNCHANGED <<store, nextID, silences, ops, secrets, prules, amcfgs>>
    /\ UNCHANGED <<reqVars, call, prev, restVars>>

---------------------------------------------------------------------------
(* GetMonitorAlertRule.                                                    *)
GetRequest(p) ==
    /\ CanStart(p)
    /\ \E key \in StoreKeys :
        proc' = [proc EXCEPT ![p] =
                    [IdleProc EXCEPT !.op = "get", !.pc = "first", !.body = <<key>>]]
    /\ ops' = ops + 1
    /\ UNCHANGED <<store, nextID, silences, secrets, prules, amcfgs>>
    /\ UNCHANGED <<reqVars, call, prev, restVars>>

(* The slot after First loaded the lowest row of rows, if there is one.    *)
Loaded(slot, rows) ==
    IF rows = {} THEN Answered(slot, ErrOf(ErrRecordNotFound))
    ELSE [slot EXCEPT !.found = <<FirstRow(rows)>>, !.pc = "live"]

(* h.Execute's client and h.GetDB().First(&ret, "cluster = ? and           *)
(* namespace = ? and name = ?").                                           *)
GetFirst(p) ==
    /\ proc[p].op = "get" /\ proc[p].pc = "first"
    /\ \E e \in {NoErr, ErrNoClient, ErrStorage} :
        proc' = [proc EXCEPT ![p] =
                    IF e # NoErr THEN Answered(proc[p], e)
                    ELSE Loaded(proc[p], RowsOfKey(store, proc[p].body[1]))]
    /\ UNCHANGED <<store, nextID, silences, ops, secrets, prules, amcfgs>>
    /\ UNCHANGED <<reqVars, call, prev, restVars>>

(* cli.Extend().GetPromeAlertRules and ret.State: the state is set on the  *)
(* answer; the handler makes no write to the table.                        *)
GetLive(p) ==
    /\ proc[p].op = "get" /\ proc[p].pc = "live"
    /\ \/ proc' = [proc EXCEPT ![p] = Answered(proc[p], ErrBackend)]
       \/ \E snap \in Snapshots :
            proc' = [proc EXCEPT
                        ![p].snap = snap,
                        ![p].out = {Returned(proc[p].found[1],
                                             LiveState(snap, proc[p].body[1]),
                                             LiveAlerts(snap, proc[p].body[1]))},
                        ![p].pc = "done"]
    /\ UNCHANGED <<store, nextID, silences, ops, secrets, prules, amcfgs>>
    /\ UNCHANGED <<reqVars, call, prev, restVars>>

(* One step of a detail request in slot p.                                 *)
GetStep(p) ==
    \/ GetRequest(p)
    \/ GetFirst(p)
    \/ GetLive(p)

(* One step of the request in slot p.                                      *)
HandlerStep(p) ==
    \/ CreateRequest(p)
    \/ UpdateRequest(p)
    \/ TxCreate(p)
    \/ TxSave(p)
    \/ TxClientOf(p)
    \/ TxSyncEmailSecret(p)
    \/ TxSyncPrometheusRule(p)
    \/ TxSyncAlertmanagerConfig(p)
    \/ Commit(p)
    \/ DeleteRequest(p)
    \/ TxDelete(p)
    \/ DeleteClientOf(p)
    \/ DeletePrometheusRule(p)
    \/ DeleteAlertmanagerConfig(p)
    \/ DeleteSilence(p)
    \/ ListRequest(p)
    \/ ListFind(p)
    \/ ListSnapshot(p)
    \/ ListRefresh(p)
    \/ ListPage(p)

---------------------------------------------------------------------------
(* Monitor collectors: AddOrUpdateMonitorCollector and                     *)
(* DeleteMonitorCollector on the Services and ServiceMonitors of a         *)
(* cluster.  A request runs alone; each call of the cluster client can     *)
(* fail, which ends the request with that error.                           *)
MaxRequests == 4

LabelMonitorCollector == "gems.kubegems.io/monitor-collector"
StatusEnabled         == "enabled"

CollectorKeys == {<<"team-a", "web">>, <<"team-a", "db">>, <<"team-b", "web">>}
PortNames     == {"http", "metrics"}
MetricPaths   == {<<"/", "metrics">>, <<"/", "stats">>}
ClientCalls   == {"get", "servicemonitor", "update"}

ErrPortNotFound    == ErrOf("port not found in Service")
ErrServiceNotFound == ErrOf("services not found")
ErrMonitorNotFound == ErrOf("servicemonitors not found")
ErrClient(c)       == ErrOf(<<"client", c>>)

(* Labels are a set of <<key, value>> pairs with at most one pair a key.   *)
Service(ports, labels) == [Ports |-> ports, Labels |-> labels]

IdleCollector ==
    [op |-> "", key |-> <<"", "">>, port |-> "", path |-> <<>>, err |-> NoErr,
     svcsBefore |-> <<>>, smsBefore |-> <<>>, n |-> 0, failed |-> 0]

(* team-a/web exposes both ports, team-a/db exposes one port and has no    *)
(* labels, team-b/web does not exist; no collector has been added.         *)
CollInit ==
    /\ svcs = [k \in CollectorKeys |->
                 IF k = <<"team-a", "web">>
                 THEN <<Service(PortNames, {<<"app", "web">>})>>
                 ELSE IF k = <<"team-a", "db">> THEN <<Service({"http"}, {})>>
                 ELSE <<>>]
    /\ sms = [k \in CollectorKeys |-> <<>>]
    /\ coll = IdleCollector

(* The ServiceMonitor spec the mutate function of CreateOrUpdate assigns.  *)
serviceMonitorSpec(key, svc, port, path) ==
    [Selector          |-> svc.Labels,
     NamespaceSelector |-> [Any |-> FALSE, MatchNames |-> <<key[1]>>],
     Endpoints         |-> <<[Port |-> port, HonorLabels |-> TRUE,
                              Interval |-> <<"30", "s">>, Path |-> path]>>]

(* svc.Labels[gems.LabelMonitorCollector] = gems.StatusEnabled             *)
withCollectorLabel(svc) ==
    [svc EXCEPT !.Labels = {l \in @ : l[1] # LabelMonitorCollector}
                              \cup {<<LabelMonitorCollector, StatusEnabled>>}]

(* A delete that leaves the labels of the Service as it read them.         *)
withCollectorLabelKept(svc) == svc

(* delete(svc.Labels, gems.LabelMonitorCollector)                          *)
withoutCollectorLabel(svc) ==
    [svc EXCEPT !.Labels = {l \in @ : l[1] # LabelMonitorCollector}]

(* The loop over svc.Spec.Ports.                                           *)
portFound(svc, port) == \E v \in svc.Ports : v = port

Responded(op, key, port, path, e) ==
    [op |-> op, key |-> key, port |-> port, path |-> path, err |-> e,
     svcsBefore |-> svcs, smsBefore |-> sms, n |-> coll.n + 1,
     failed |-> IF e = NoErr THEN coll.failed ELSE coll.failed + 1]

(* failAt names the client call that fails in this request ("" = none).    *)
AddOrUpdateMonitorCollector(key, port, path, failAt) ==
    /\ coll.n < MaxRequests
    /\ IF svcs[key] = <<>>
       THEN /\ coll' = Responded("add", key, port, path, ErrServiceNotFound)
            /\ UNCHANGED <<svcs, sms>>
       ELSE IF failAt = "get"
       THEN /\ coll' = Responded("add", key, port, path, ErrClient("get"))
            /\ UNCHANGED <<svcs, sms>>
       ELSE IF ~portFound(svcs[key][1], port)
       THEN /\ coll' = Responded("add", key, port, path, ErrPortNotFound)
            /\ UNCHANGED <<svcs, sms>>
       ELSE IF failAt = "servicemonitor"
       THEN /\ coll' = Responded("add", key, port, path, ErrClient("servicemonitor"))
            /\ UNCHANGED <<svcs, sms>>
       ELSE /\ sms' = [sms EXCEPT ![key] =
                         <<serviceMonitorSpec(key, svcs[key][1], port, path)>>]
            /\ IF failAt = "update"
               THEN /\ coll' = Responded("add", key, port, path, ErrClient("update"))
                    /\ UNCHANGED svcs
               ELSE /\ coll' = Responded("add", key, port, path, NoErr)
                    /\ svcs' = [svcs EXCEPT ![key] = <<withCollectorLabel(@[1])>>]
    /\ UNCHANGED <<reqVars, syncVars, storeVars, sigVars>>

DeleteMonitorCollector(key, failAt) ==
    /\ coll.n < MaxRequests
    /\ IF svcs[key] = <<>>
       THEN /\ coll' = Responded("delete", key, "", <<>>, ErrServiceNotFound)
            /\ UNCHANGED <<svcs, sms>>
       ELSE IF failAt = "get"
       THEN /\ coll' = Responded("delete", key, "", <<>>, ErrClient("get"))
            /\ UNCHANGED <<svcs, sms>>
       ELSE IF sms[key] = <<>>
       THEN /\ coll' = Responded("delete", key, "", <<>>, ErrMonitorNotFound)
            /\ UNCHANGED <<svcs, sms>>
       ELSE IF failAt = "servicemonitor"
       THEN /\ coll' = Responded("delete", key, "", <<>>, ErrClient("servicemonitor"))
            /\ UNCHANGED <<svcs, sms>>
       ELSE /\ sms' = [sms EXCEPT ![key] = <<>>]
            /\ IF failAt = "update"
               THEN /\ coll' = Responded("delete", key, "", <<>>, ErrClient("update"))
                    /\ UNCHANGED svcs
               ELSE /\ coll' = Responded("delete", key, "", <<>>, NoErr)
                    /\ svcs' = [svcs EXCEPT ![key] = <<withoutCollectorLabel(@[1])>>]
    /\ UNCHANGED <<reqVars, syncVars, storeVars, sigVars>>

---------------------------------------------------------------------------
(* HTTP signatures (pkg/utils/httpsigs/httpsigs.go).  Here text is a       *)
(* sequence of characters, so that the concatenation Sign and Validate     *)
(* digest is the concatenation of the program.  A header that is not set   *)
(* reads as the empty text.                                                *)
Duration == 60

DigitChars == <<"0", "1", "2", "3", "4", "5", "6", "7", "8", "9">>
IsDigit(c) == \E i \in 1..10 : DigitChars[i] = c
DigitVal(c) == (CHOOSE i \in 1..10 : DigitChars[i] = c) - 1

RECURSIVE FormatUint(_)
FormatUint(n) ==
    IF n < 10 THEN <<DigitChars[n + 1]>>
    ELSE Append(FormatUint(n \div 10), DigitChars[(n % 10) + 1])
(* strconv.FormatInt(n, 10)                                                *)
FormatInt(n) == IF n < 0 THEN <<"-">> \o FormatUint(0 - n) ELSE FormatUint(n)

RECURSIVE ParseUint(_)
ParseUint(s) ==
    IF s = <<>> THEN 0
    ELSE 10 * ParseUint(SubSeq(s, 1, Len(s) - 1)) + DigitVal(s[Len(s)])
Unsigned(s) == IF s # <<>> /\ s[1] \in {"+", "-"} THEN Tail(s) ELSE s
(* strconv.ParseInt(s, 10, 64): <<>> is the syntax error, <<n>> the value. *)
(* An optional sign, then one or more digits; leading zeros are digits.    *)
(* The texts of the model have at most four digits, far from the range     *)
(* error.                                                                  *)
ParseInt(s) ==
    IF Unsigned(s) = <<>> \/ \E i \in 1..Len(Unsigned(s)) : ~IsDigit(Unsigned(s)[i])
    THEN <<>>
    ELSE IF s[1] = "-" THEN <<0 - ParseUint(Unsigned(s))>>
    ELSE <<ParseUint(Unsigned(s))>>

(* strings.TrimPrefix                                                      *)
TrimPrefix(s, prefix) ==
    IF Len(prefix) <= Len(s) /\ SubSeq(s, 1, Len(prefix)) = prefix
    THEN SubSeq(s, Len(prefix) + 1, Len(s))
    ELSE s

(* fmt.Sprintf("%x", md5.Sum(text)): the digest is taken as collision-free, *)
(* so it is the text under a tag.                                          *)
md5hex(text) == <<"md5", text>>
toSignStr(path, timeStr, token) == path \o timeStr \o token

ErrParseInt  == "strconv.ParseInt: invalid syntax"
ErrTimeOut   == "httpsigs time out"
ErrSignature == "invalid http signature"

(* Signer.IsWhiteList with a prefix comparison in place of the equality.   *)
IsWhiteListByPrefix(wl, path) ==
    \E idx \in 1..Len(wl) : TrimPrefix(path, wl[idx]) # path \/ wl[idx] = path

IsWhiteList(wl, path) == \E idx \in 1..Len(wl) : wl[idx] = path

(* The window test of Validate with the bounds themselves outside.         *)
timedOutAtBounds(timestamp, now) ==
    timestamp >= now + Duration \/ timestamp <= now - Duration

(* timestamp > after || timestamp < before                                 *)
timedOut(timestamp, now) == timestamp > now + Duration \/ timestamp < now - Duration

(* Signer.Validate after the whitelist test.                               *)
validateSignature(tok, r, now) ==
    IF ParseInt(r.Time) = <<>> THEN ErrParseInt
    ELSE IF timedOut(ParseInt(r.Time)[1], now) THEN ErrTimeOut
    ELSE IF md5hex(toSignStr(r.Path, r.Time, tok)) # r.Sign THEN ErrSignature
    ELSE Nil

(* Signer.Validate of request r by a signer with whitelist wl and token    *)
(* tok when time.Now() is now.                                             *)
validate(wl, tok, r, now) ==
    IF IsWhiteList(wl, r.Path) THEN Nil ELSE validateSignature(tok, r, now)

SigPaths    == {<<"/", "a">>, <<"/", "a", "0">>, <<"/", "p", "/", "a">>}
SigPrefixes == {<<>>, <<"/", "p">>}
WhitePaths  == {<<"/", "a">>, <<"/", "p", "/", "a">>}
Tokens      == {<<"k">>, <<"j">>}
SignTimes   == {170}
Clock       == {109, 110, 170, 230, 231}
TimeTexts   == {FormatInt(t) : t \in SignTimes}
                 \cup {<<"0">> \o FormatInt(t) : t \in SignTimes}
                 \cup {<<"+">> \o FormatInt(t) : t \in SignTimes}
                 \cup {<<>>, <<"1", "7", "x">>}

AddWhiteList(path) ==
    /\ whitelist' = IF IsWhiteList(whitelist, path) THEN whitelist
                    ELSE Append(whitelist, path)
    /\ UNCHANGED <<sent, wire, verdict>>
    /\ UNCHANGED <<reqVars, syncVars, storeVars, collVars>>

(* Sign sets the two headers of the request and leaves its path alone.     *)
Sign(path, prefix, tok, now) ==
    /\ sent' = <<[Path |-> path, Prefix |-> prefix, Token |-> tok, Now |-> now]>>
    /\ wire' = <<[Path |-> path, Time |-> FormatInt(now),
                  Sign |-> md5hex(toSignStr(TrimPrefix(path, prefix), FormatInt(now), tok))]>>
    /\ verdict' = <<>>
    /\ UNCHANGED whitelist
    /\ UNCHANGED <<reqVars, syncVars, storeVars, collVars>>

(* Between the signer and the validator the request is rewritten: by the   *)
(* proxy that strips the prefix, or by whoever holds the signed request.   *)
(* The signature header is kept or dropped.                                *)
Rewrite(path, timeStr, keepSign) ==
    /\ wire # <<>>
    /\ wire' = <<[Path |-> path, Time |-> timeStr,
                  Sign |-> IF keepSign THEN wire[1].Sign ELSE <<>>]>>
    /\ wire' # wire
    /\ verdict' = <<>>
    /\ UNCHANGED <<whitelist, sent>>
    /\ UNCHANGED <<reqVars, syncVars, storeVars, collVars>>

Validate(tok, now) ==
    /\ wire # <<>>
    /\ verdict' = <<[Token |-> tok, Now |-> now, WhiteList |-> whitelist,
                     err |-> validate(whitelist, tok, wire[1], now)]>>
    /\ UNCHANGED <<whitelist, sent, wire>>
    /\ UNCHANGED <<reqVars, syncVars, storeVars, collVars>>

SigInit == whitelist = <<>> /\ sent = <<>> /\ wire = <<>> /\ verdict = <<>>
RestInit == CollInit /\ SigInit

---------------------------------------------------------------------------
(* Specifications.                                                         *)

(* The request pipeline over the bounded requests; nothing is synced.      *)
Init == ReqInit /\ SyncInit /\ StoreInit /\ RestInit
Next ==
    \/ SetTpl
    \/ SetMessage
    \/ SetExpr
    \/ SetReceivers
    \/ CheckAlertLevels
    \/ Recompile
Spec == Init /\ [][Next]_vars

(* Synchronization of rules that passed the pipeline.                      *)
InitSync ==
    /\ req = BaseReq /\ bound = BaseReq /\ pc = "synced" /\ failedAt = "" /\ err = Nil
    /\ again = <<>>
    /\ SyncInit
    /\ StoreInit
    /\ RestInit
NextSync ==
    \/ StartSync
    \/ ClientOf
    \/ SyncEmailSecret
    \/ SyncPrometheusRule
    \/ SyncAlertmanagerConfig
SpecSync == InitSync /\ [][NextSync]_vars

(* The handlers on the table and the remote resources, one request at a    *)
(* time.                                                                   *)
InitStore ==
    /\ req = BaseReq /\ bound = BaseReq /\ pc = "stored" /\ failedAt = "" /\ err = Nil
    /\ again = <<>>
    /\ SyncInit
    /\ StoreInit
    /\ RestInit
(* No request is in flight: the silence handlers, too, run between the     *)
(* requests.                                                               *)
Quiet == proc[1].pc \in {"idle", "done"}
NextStore ==
    \/ HandlerStep(1)
    \/ GetStep(1)
    \/ Quiet /\ SilenceRule
SpecStore == InitStore /\ [][NextStore]_vars

(* The handlers with requests in both slots at once, on a table that      *)
(* holds the rule of BaseReq as its create request left it.                *)
StoredBase == [getAlertRuleReq(BaseReq).rule EXCEPT !.ID = 1]
InitRace ==
    /\ req = BaseReq /\ bound = BaseReq /\ pc = "stored" /\ failedAt = "" /\ err = Nil
    /\ again = <<>>
    /\ call = IdleCall /\ prev = <<>>
    /\ secrets = [ns \in SyncNamespaces |->
                    IF ns = StoredBase.Namespace THEN <<mutateEmailSecret(StoredBase, <<>>)>>
                    ELSE <<>>]
    /\ prules = [k \in SyncKeys |->
                    IF k = KeyOf(StoredBase) THEN <<mutatePrometheusRule(StoredBase, <<>>)>>
                    ELSE <<>>]
    /\ amcfgs = [k \in SyncKeys |->
                    IF k = KeyOf(StoredBase) THEN <<mutateAlertmanagerConfig(StoredBase, <<>>)>>
                    ELSE <<>>]
    /\ store = {Row(StoredBase, StateUnset)}
    /\ nextID = 2
    /\ silences = {}
    /\ proc = [p \in Procs |-> IdleProc]
    /\ ops = 1
    /\ RestInit
NextRace ==
    \/ \E p \in Procs : HandlerStep(p)
    \/ SilenceRule
SpecRace == InitRace /\ [][NextRace]_vars

(* The monitor-collector handlers, one request after another.              *)
NextCollector ==
    \/ \E key \in CollectorKeys, port \in PortNames \cup {"grpc"}, path \in MetricPaths,
          failAt \in ClientCalls \cup {""} :
          AddOrUpdateMonitorCollector(key, port, path, failAt)
    \/ \E key \in CollectorKeys, failAt \in ClientCalls \cup {""} :
          DeleteMonitorCollector(key, failAt)
SpecCollector == InitStore /\ [][NextCollector]_vars

(* Requests signed, rewritten on the way and validated, with a whitelist   *)
(* that grows.                                                             *)
NextSigs ==
    \/ \E path \in WhitePaths : AddWhiteList(path)
    \/ \E path \in SigPaths, prefix \in SigPrefixes, tok \in Tokens, now \in SignTimes :
          Sign(path, prefix, tok, now)
    \/ \E path \in SigPaths, timeStr \in TimeTexts, keepSign \in BOOLEAN :
          Rewrite(path, timeStr, keepSign)
    \/ \E tok \in Tokens, now \in Clock : Validate(tok, now)
SpecSigs == InitStore /\ [][NextSigs]_vars

---------------------------------------------------------------------------
(* syncEmailSecret as the two calls controllerutil.CreateOrUpdate makes:   *)
(* the Secret is fetched, and after the mutate function ran it is created  *)
(* or updated.  The cluster refuses a Create of a Secret that exists and   *)
(* an Update of a Secret that changed since it was fetched.                *)
ErrSecretExists   == [wrap |-> StageWrap("secret"), cause |-> "already exists"]
ErrSecretConflict == [wrap |-> StageWrap("secret"), cause |-> "conflict"]

(* The rules whose syncs meet on the Secret of namespace team-a.           *)
SecretRules == {r \in SyncRules : r.Namespace = "team-a"}

SecretSyncStart(p) ==
    /\ CanStart(p)
    /\ \E r \in SecretRules :
        proc' = [proc EXCEPT ![p] =
                    [IdleProc EXCEPT !.op = "sync", !.pc = "fetch", !.rule = <<r>>]]
    /\ ops' = ops + 1
    /\ UNCHANGED <<store, nextID, silences, secrets, prules, amcfgs>>
    /\ UNCHANGED <<reqVars, call, prev, restVars>>

(* c.Get(ctx, key, obj)                                                    *)
SecretFetch(p) ==
    /\ proc[p].op = "sync" /\ proc[p].pc = "fetch"
    /\ proc' = [proc EXCEPT ![p].found = secrets[proc[p].rule[1].Namespace],
                            ![p].pc = "apply"]
    /\ UNCHANGED <<store, nextID, silences, ops, secrets, prules, amcfgs>>
    /\ UNCHANGED <<reqVars, call, prev, restVars>>

(* Variant in which the cluster takes every write: the last one wins.      *)
ApplyRefusedNever(fetched, current) == NoErr

(* What the cluster answers to the Create (nothing was fetched) or the     *)
(* Update (of what was fetched) when the Secret is now current.            *)
ApplyRefused(fetched, current) ==
    IF fetched = <<>>
    THEN IF current # <<>> THEN ErrSecretExists ELSE NoErr
    ELSE IF current # fetched THEN ErrSecretConflict ELSE NoErr

(* The mutate function left the fetched Secret as it was: CreateOrUpdate   *)
(* returns without a write.                                                *)
SecretUnchanged(slot) ==
    slot.found # <<>> /\ mutateEmailSecret(slot.rule[1], slot.found) = slot.found[1]

(* c.Create / c.Update of the mutated Secret.                              *)
SecretApply(p) ==
    /\ proc[p].op = "sync" /\ proc[p].pc = "apply"
    /\ IF SecretUnchanged(proc[p])
       THEN /\ proc' = [proc EXCEPT ![p].pc = "done"]
            /\ UNCHANGED secrets
       ELSE IF ApplyRefused(proc[p].found, secrets[proc[p].rule[1].Namespace]) # NoErr
       THEN /\ proc' = [proc EXCEPT
                            ![p].pc = "done",
                            ![p].err = ApplyRefused(proc[p].found,
                                                    secrets[proc[p].rule[1].Namespace])]
            /\ UNCHANGED secrets
       ELSE /\ proc' = [proc EXCEPT ![p].pc = "done", ![p].applied = <<"secret">>]
            /\ secrets' = [secrets EXCEPT ![proc[p].rule[1].Namespace] =
                                <<mutateEmailSecret(proc[p].rule[1], proc[p].found)>>]
    /\ UNCHANGED <<store, nextID, silences, ops, prules, amcfgs>>
    /\ UNCHANGED <<reqVars, call, prev, restVars>>

(* Syncs of rules of one namespace in both slots at once.                  *)
NextSecret ==
    \/ \E p \in Procs : SecretSyncStart(p)
    \/ \E p \in Procs : SecretFetch(p)
    \/ \E p \in Procs : SecretApply(p)
SpecSecret == InitStore /\ [][NextSecret]_vars

---------------------------------------------------------------------------
(* Properties of the request pipeline (Spec).                              *)

(* Where the request stands relative to each step.                         *)
ExprPassed ==
    \/ pc \in {"receivers", "levels", "ok", "recompiled"}
    \/ pc = "failed" /\ failedAt \in {"receivers", "levels"}
ExprFailed == pc = "failed" /\ failedAt = "expr"
ExprRan == ExprPassed \/ ExprFailed
ReceiversRan ==
    \/ pc \in {"levels", "ok", "recompiled"}
    \/ pc = "failed" /\ failedAt \in {"receivers", "levels"}
LevelsRan == pc \in {"ok", "recompiled"} \/ (pc = "failed" /\ failedAt = "levels")

IsMonitor == req.AlertType = AlertTypeMonitor
IsLogging == req.AlertType = AlertTypeLogging
Scoped == req.Namespace # "" /\ req.Namespace # GlobalAlertNamespace
HasNamespaceConstraint(text, ns) ==
    \/ Contains(text, <<"namespace", "=", ns>>)
    \/ Contains(text, <<"namespace", "=~", ns>>)
HasOperatorToken(text) ==
    \E i \in 1..Len(text) : text[i] \in {"<", "<=", "==", "!=", ">", ">="}
SameNameAt(ms, i, j) == i < j /\ ms[i].Name = ms[j].Name

(* C1: a namespace-scoped metric rule that passed setExpr holds            *)
(* namespace="<ns>" or namespace=~"<ns>" for its own namespace in its      *)
(* expr; no scoped metric rule without it passes.                          *)
C1_NamespaceConstraint ==
    (ExprPassed /\ IsMonitor /\ Scoped) => HasNamespaceConstraint(req.Expr, req.Namespace)

(* A scoped metric rule compiled from a generator passed setExpr.          *)
C1_Witness ==
    /\ ExprPassed /\ IsMonitor /\ Scoped
    /\ req.PromqlGenerator # <<>>
    /\ bound.Expr = <<>>

(* C2: setExpr run a second time on the same metric rule succeeds again    *)
(* and yields the expression of the first run.                             *)
C2_Deterministic ==
    (pc = "recompiled" /\ IsMonitor) =>
        /\ again[1].err = Nil
        /\ again[1].rule.Expr = req.Expr

(* C3: a metric generator whose matcher list holds two matchers of one     *)
(* label name fails setExpr with the duplicate-matcher error, wherever the *)
(* two stand in the list, and expr stays what it was.                      *)
C3_DuplicateMatcher ==
    (/\ ExprRan /\ IsMonitor
     /\ bound.PromqlGenerator # <<>>
     /\ \E i, j \in 1..Len(bound.PromqlGenerator[1].LabelMatchers) :
            SameNameAt(bound.PromqlGenerator[1].LabelMatchers, i, j))
    => /\ ExprFailed
       /\ err = ErrDuplicatedMatcher
       /\ req.Expr = bound.Expr

(* The two matchers of one name stand first and third, and the rule came   *)
(* with an expr of its own.                                                *)
C3_Witness ==
    /\ ExprFailed /\ IsMonitor
    /\ bound.PromqlGenerator # <<>>
    /\ Len(bound.PromqlGenerator[1].LabelMatchers) = 3
    /\ SameNameAt(bound.PromqlGenerator[1].LabelMatchers, 1, 3)
    /\ ~SameNameAt(bound.PromqlGenerator[1].LabelMatchers, 1, 2)
    /\ ~SameNameAt(bound.PromqlGenerator[1].LabelMatchers, 2, 3)
    /\ bound.Expr # <<>>
    /\ err = ErrDuplicatedMatcher

(* C4: a metric rule whose expr is empty or does not parse is rejected by  *)
(* setExpr.                                                                *)
C4_SyntaxRejected ==
    (ExprPassed /\ IsMonitor) => (req.Expr # <<>> /\ ParseExpr(req.Expr).ok)

(* C5: a rule that passed setExpr has no comparison operator in its expr;  *)
(* an expr with one is rejected, whether the caller sent it without a      *)
(* generator or a generator produced it, for both alert types.             *)
C5_NoCompareOp ==
    /\ ExprPassed => ~HasOperatorToken(req.Expr)
    /\ (/\ ExprRan
        /\ HasOperatorToken(bound.Expr)
        /\ \/ IsMonitor /\ bound.PromqlGenerator = <<>>
           \/ IsLogging /\ bound.LogqlGenerator = <<>>)
       => (ExprFailed /\ err = ErrCompareOp)
    /\ (ExprFailed /\ req.Expr # bound.Expr /\ HasOperatorToken(req.Expr))
       => err = ErrCompareOp

(* A log generator produced an expr with a comparison operator and the     *)
(* rule was rejected for it.                                               *)
C5_Witness ==
    /\ ExprFailed /\ IsLogging
    /\ bound.LogqlGenerator # <<>>
    /\ bound.Expr = <<>>
    /\ HasOperatorToken(req.Expr)
    /\ err = ErrCompareOp

(* C6: for a log generator whose lookback parses, more than ten minutes    *)
(* (600000 ms) fails setExpr with the too-long error and ten minutes or    *)
(* less passes the duration check; 11m fails and 10m passes it.            *)
C6_LookbackBound ==
    (ExprRan /\ IsLogging /\ bound.LogqlGenerator # <<>>) =>
        /\ (/\ ParseDuration(bound.LogqlGenerator[1].Duration).err = Nil
            /\ ParseDuration(bound.LogqlGenerator[1].Duration).ms > 600000)
           => (ExprFailed /\ err = ErrDurationTooLong)
        /\ (/\ ParseDuration(bound.LogqlGenerator[1].Duration).err = Nil
            /\ ParseDuration(bound.LogqlGenerator[1].Duration).ms <= 600000)
           => err \notin {ErrDurationTooLong, ErrDuration}
        /\ bound.LogqlGenerator[1].Duration = <<"11", "m">>
           => (ExprFailed /\ err = ErrDurationTooLong)
        /\ bound.LogqlGenerator[1].Duration \in {<<"10", "m">>, <<"600", "s">>, <<"9", "m", "59", "s">>}
           => err \notin {ErrDurationTooLong, ErrDuration}

(* A log rule with a lookback of exactly 10m passed setExpr.               *)
C6_Witness ==
    /\ ExprPassed /\ IsLogging
    /\ bound.LogqlGenerator # <<>>
    /\ bound.LogqlGenerator[1].Duration = <<"10", "m">>

(* C7: after setReceivers ran its append on a non-empty receiver list      *)
(* without duplicate channels, the caller's receivers are kept in order;   *)
(* a list without the default channel got exactly one default entry, last, *)
(* with the first receiver's interval; a list with it was not extended.    *)
C7_DefaultReceiver ==
    (/\ ReceiversRan
     /\ bound.Receivers # <<>>
     /\ \A i, j \in 1..Len(bound.Receivers) :
            i # j => bound.Receivers[i].AlertChannelID # bound.Receivers[j].AlertChannelID)
    => /\ \A i \in 1..Len(bound.Receivers) :
            /\ i <= Len(req.Receivers)
            /\ req.Receivers[i].AlertChannelID = bound.Receivers[i].AlertChannelID
            /\ req.Receivers[i].Interval = bound.Receivers[i].Interval
       /\ Cardinality({i \in 1..Len(req.Receivers) :
                          req.Receivers[i].AlertChannelID = DefaultChannelID}) = 1
       /\ IF \E i \in 1..Len(bound.Receivers) : bound.Receivers[i].AlertChannelID = DefaultChannelID
          THEN Len(req.Receivers) = Len(bound.Receivers)
          ELSE /\ Len(req.Receivers) = Len(bound.Receivers) + 1
               /\ req.Receivers[Len(req.Receivers)].AlertChannelID = DefaultChannelID
               /\ req.Receivers[Len(req.Receivers)].Interval = bound.Receivers[1].Interval

(* Two receivers with different intervals, neither the default channel,    *)
(* went through setReceivers and the rule was accepted.                    *)
C7_Witness ==
    /\ pc = "ok"
    /\ Len(bound.Receivers) = 2
    /\ \A i \in 1..2 : bound.Receivers[i].AlertChannelID # DefaultChannelID
    /\ bound.Receivers[1].Interval # bound.Receivers[2].Interval
    /\ Len(req.Receivers) = 3

(* C8: checkAlertLevels succeeds exactly when there is a level, the        *)
(* severities are pairwise distinct, and there is at most one level or     *)
(* inhibitLabels is non-empty.                                             *)
C8_LevelValidation ==
    LevelsRan =>
        ((pc # "failed") <=>
            /\ Len(req.AlertLevels) > 0
            /\ \A i, j \in 1..Len(req.AlertLevels) :
                    i # j => req.AlertLevels[i].Severity # req.AlertLevels[j].Severity
            /\ (Len(req.AlertLevels) <= 1 \/ Len(req.InhibitLabels) > 0))

(* Two levels with empty inhibitLabels were refused.                       *)
C8_Witness ==
    /\ pc = "failed" /\ failedAt = "levels"
    /\ Len(req.AlertLevels) = 2
    /\ req.AlertLevels[1].Severity # req.AlertLevels[2].Severity
    /\ req.InhibitLabels = <<>>
    /\ err = ErrInhibitLabels

---------------------------------------------------------------------------
(* Properties of the synchronization (SpecSync).                           *)

(* C9: while and after syncMonitorAlertRule runs again for the rule it     *)
(* last completed for, the Secret, the PrometheusRule and the              *)
(* AlertmanagerConfig are what the first run left.                         *)
C9_SyncIdempotent ==
    call.repeat => (prev # <<>> /\ Remote = prev[1].remote)

(* A second sync of a rule with an email receiver and inhibit labels       *)
(* returned nil.                                                           *)
C9_Witness ==
    /\ call.repeat
    /\ call.pc = "done"
    /\ call.err = NoErr
    /\ call.rule[1].InhibitLabels # <<>>
    /\ secrets[call.rule[1].Namespace] # <<>>
    /\ secrets[call.rule[1].Namespace][1].Data # {}

(* C10: the stages run in the order secret, prometheusrule,                *)
(* alertmanagerconfig; once a stage failed the call is over, no later      *)
(* stage is attempted, and the error carries the text of the stage that    *)
(* failed; a call that returned nil ran all three.                         *)
C10_StageOrder ==
    /\ Len(call.attempted) <= 3
    /\ call.attempted = SubSeq(<<"secret", "prometheusrule", "alertmanagerconfig">>,
                               1, Len(call.attempted))
    /\ call.err # NoErr =>
        /\ call.pc = "done"
        /\ call.attempted # <<>> =>
            call.err.wrap =
                CASE call.attempted[Len(call.attempted)] = "secret" -> "sync secret failed"
                  [] call.attempted[Len(call.attempted)] = "prometheusrule" ->
                        "sync prometheusrule failed"
                  [] call.attempted[Len(call.attempted)] = "alertmanagerconfig" ->
                        "sync alertmanagerconfig failed"
        /\ call.attempted = <<>> => call.err.wrap = ""
    /\ (call.pc = "done" /\ call.err = NoErr) => Len(call.attempted) = 3

(* The PrometheusRule stage failed after the Secret stage succeeded.       *)
C10_Witness ==
    /\ call.pc = "done"
    /\ call.attempted = <<"secret", "prometheusrule">>
    /\ call.err.wrap = "sync prometheusrule failed"
    /\ secrets[call.rule[1].Namespace] # <<>>
    /\ amcfgs[<<call.rule[1].Namespace, call.rule[1].Name>>] = <<>>

---------------------------------------------------------------------------
(* Properties of the handlers (SpecStore, SpecRace).                       *)

(* The remote resources hold what the rule's sync writes.                  *)
SecretHolds(rule) ==
    /\ secrets[rule.Namespace] # <<>>
    /\ \A ch \in EmailChannels(rule) :
        [key |-> <<ch.Name, ch.From>>, val |-> ch.AuthPassword]
            \in secrets[rule.Namespace][1].Data
PrometheusRuleHolds(rule) ==
    /\ prules[KeyOf(rule)] # <<>>
    /\ prules[KeyOf(rule)][1].Groups = <<RuleGroup(rule)>>
AlertmanagerConfigHolds(rule) ==
    /\ amcfgs[KeyOf(rule)] # <<>>
    /\ amcfgs[KeyOf(rule)][1].Route[1].Routes =
            [i \in 1..Len(rule.Receivers) |-> ReceiverRoute(rule, rule.Receivers[i])]
    /\ Len(amcfgs[KeyOf(rule)][1].Receivers) = Len(rule.Receivers) + 1
    /\ amcfgs[KeyOf(rule)][1].InhibitRules = InhibitRules(rule)

IsWrite(slot) == slot.op \in {"create", "update"}
Succeeded(slot) == slot.pc = "done" /\ slot.err = NoErr
SyncFailed(slot) == slot.pc = "done" /\ slot.err.wrap # ""

(* C11: a create or update whose sync failed leaves the stages it applied  *)
(* in place, and a create or update that succeeded (a retry among them)    *)
(* leaves its rule in the table and the three remote resources holding     *)
(* what that rule's sync writes.                                           *)
C11_RetryConverges ==
    /\ (IsWrite(proc[1]) /\ SyncFailed(proc[1])) =>
        /\ (\E i \in 1..Len(proc[1].applied) : proc[1].applied[i] = "secret")
            => SecretHolds(proc[1].rule[1])
        /\ (\E i \in 1..Len(proc[1].applied) : proc[1].applied[i] = "prometheusrule")
            => PrometheusRuleHolds(proc[1].rule[1])
    /\ (IsWrite(proc[1]) /\ Succeeded(proc[1])) =>
        /\ \E row \in store : row.rule = proc[1].rule[1]
        /\ SecretHolds(proc[1].rule[1])
        /\ PrometheusRuleHolds(proc[1].rule[1])
        /\ AlertmanagerConfigHolds(proc[1].rule[1])

(* The update that is repeated after its sync failed succeeded, for a rule *)
(* with an email receiver and two levels.                                  *)
C11_Witness ==
    /\ proc[1].op = "update"
    /\ proc[1].retried
    /\ Succeeded(proc[1])
    /\ Len(proc[1].rule[1].AlertLevels) = 2
    /\ EmailChannels(proc[1].rule[1]) # {}

(* C12: (as stated) once a create or update has issued a remote write, its  *)
(* local write is already committed: nothing of the transaction is still    *)
(* pending while a sync stage has been applied.                             *)
C12_SyncAfterCommit ==
    (IsWrite(proc[1]) /\ proc[1].applied # <<>>) => proc[1].pending = <<>>

(* The request pipeline refuses the body the slot was started with.        *)
PipelineRefuses(slot) ==
    IsWrite(slot) /\ getAlertRuleReq(slot.body[1]).err # Nil

(* C13: a step that starts a create or update whose request pipeline       *)
(* fails answers the request with the pipeline's error at once and         *)
(* changes neither the table nor any remote resource; no write of it is    *)
(* pending and no sync stage of it is applied.                             *)
C13_ErrorsBeforeWrites ==
    [][ (proc'[1] # proc[1] /\ PipelineRefuses(proc'[1])) =>
            /\ proc'[1].pc = "done"
            /\ proc'[1].err = ErrOf(getAlertRuleReq(proc'[1].body[1]).err)
            /\ proc'[1].pending = <<>>
            /\ proc'[1].applied = <<>>
            /\ UNCHANGED <<store, nextID, silences, secrets, prules, amcfgs>> ]_vars

(* An update refused by the pipeline was answered while a rule is stored   *)
(* and synchronized.                                                       *)
C13_Witness ==
    /\ proc[1].op = "update"
    /\ PipelineRefuses(proc[1])
    /\ proc[1].pc = "done"
    /\ store # {}
    /\ \E k \in StoreKeys : prules[k] # <<>> /\ amcfgs[k] # <<>>

---------------------------------------------------------------------------
(* Properties of the routing resource (SpecSync).                          *)

SyncReturnedNil == call.pc = "done" /\ call.err = NoErr
SyncedConfig == amcfgs[<<call.rule[1].Namespace, call.rule[1].Name>>][1]
Severities(rule) == [i \in 1..Len(rule.AlertLevels) |-> rule.AlertLevels[i].Severity]
ToSet(seq) == {seq[i] : i \in 1..Len(seq)}

(* C14: (as stated) after a sync that returned nil, the routing resource   *)
(* of a rule with exactly one level has no inhibit rules and one route per *)
(* receiver, and a routing resource with inhibit rules belongs to a rule   *)
(* with more than one level.                                               *)
C14_SingleLevelNoInhibit ==
    SyncReturnedNil =>
        /\ Len(call.rule[1].AlertLevels) = 1 =>
            /\ SyncedConfig.InhibitRules = <<>>
            /\ Len(SyncedConfig.Route[1].Routes) = Len(call.rule[1].Receivers)
        /\ SyncedConfig.InhibitRules # <<>> => Len(call.rule[1].AlertLevels) > 1

(* C15: (as stated) after a sync that returned nil for a rule with levels  *)
(* critical and warning and inhibit labels [pod], the routing resource has *)
(* exactly one inhibit rule, equal on {pod, namespace label, rule-name     *)
(* label}, whose source matches severity critical and whose target matches *)
(* severity warning of the same namespace and rule name.                   *)
C15_InhibitWarning ==
    (/\ SyncReturnedNil
     /\ Severities(call.rule[1]) = <<"critical", "warning">>
     /\ call.rule[1].InhibitLabels = <<"pod">>) =>
        /\ Len(SyncedConfig.InhibitRules) = 1
        /\ ToSet(SyncedConfig.InhibitRules[1].Equal) = {"pod", AlertNamespaceLabel, AlertNameLabel}
        /\ ToSet(SyncedConfig.InhibitRules[1].SourceMatch) =
                ToSet(RuleMatchers(call.rule[1])) \cup {[Name |-> SeverityLabel, Value |-> "critical"]}
        /\ ToSet(SyncedConfig.InhibitRules[1].TargetMatch) =
                ToSet(RuleMatchers(call.rule[1])) \cup {[Name |-> SeverityLabel, Value |-> "warning"]}

(* The part of C15 that does not name the target severity.                 *)
C15_AllButTarget ==
    (/\ SyncReturnedNil
     /\ Severities(call.rule[1]) = <<"critical", "warning">>
     /\ call.rule[1].InhibitLabels = <<"pod">>) =>
        /\ Len(SyncedConfig.InhibitRules) = 1
        /\ ToSet(SyncedConfig.InhibitRules[1].Equal) = {"pod", AlertNamespaceLabel, AlertNameLabel}
        /\ ToSet(SyncedConfig.InhibitRules[1].SourceMatch) =
                ToSet(RuleMatchers(call.rule[1])) \cup {[Name |-> SeverityLabel, Value |-> "critical"]}

---------------------------------------------------------------------------
(* Properties of deletion and listing (SpecStore, SpecRace).               *)

(* C16: in a delete, a not-found answer of a remote deletion never fails   *)
(* the request: the teardown goes on to the next call, and a delete that   *)
(* only met absent resources succeeds; any other failure of a remote       *)
(* deletion ends the teardown there and is the request's error.            *)
C16_NotFoundIgnored ==
    proc[1].op = "delete" =>
        /\ \A i \in 1..Len(proc[1].seen) :
            proc[1].seen[i] = "error" =>
                /\ i = Len(proc[1].seen)
                /\ proc[1].pc = "done"
                /\ proc[1].err = ErrDelete
        /\ (proc[1].pc = "done" /\ proc[1].err = ErrDelete) =>
                proc[1].seen[Len(proc[1].seen)] = "error"
        /\ Succeeded(proc[1]) =>
                /\ Len(proc[1].seen) = 3
                /\ \A i \in 1..3 : proc[1].seen[i] \in {"ok", "notfound"}

(* A delete succeeded although neither the PrometheusRule nor the          *)
(* AlertmanagerConfig was there.                                           *)
C16_Witness ==
    /\ proc[1].op = "delete"
    /\ Succeeded(proc[1])
    /\ SubSeq(proc[1].seen, 1, 2) = <<"notfound", "notfound">>

(* A remote deletion failed with another error after a not-found answer    *)
(* was passed over.                                                        *)
C16_WitnessPropagated ==
    /\ proc[1].op = "delete"
    /\ proc[1].pc = "done"
    /\ proc[1].seen = <<"notfound", "error">>
    /\ proc[1].err = ErrDelete

(* The remote resources and the silence of a key are gone.                 *)
TornDown(key) == prules[key] = <<>> /\ amcfgs[key] = <<>> /\ key \notin silences

(* A step that removes a row is the commit of a delete whose three         *)
(* teardown calls have been made, with the rule's remote resources and     *)
(* silence already gone.                                                   *)
RemovalAfterTeardown ==
    \A row \in store :
        (\A o \in store' : o.rule.ID # row.rule.ID) =>
            /\ proc[1].op = "delete"
            /\ proc[1].rule = <<row.rule>>
            /\ Len(proc[1].seen) = 3
            /\ TornDown(KeyOf(row.rule))

(* A delete that ends with an error leaves the table as it was.            *)
FailedDeleteKeepsTable ==
    (/\ proc[1].op = "delete"
     /\ proc[1].pc # "done"
     /\ proc'[1].pc = "done"
     /\ proc'[1].err # NoErr) => store' = store

C17_WitnessFailed ==
    /\ proc[1].op = "delete"
    /\ proc[1].pc = "done"
    /\ proc[1].err = ErrDelete
    /\ \E row \in store : proc[1].rule = <<row.rule>>

(* C18: (as stated) every row a listing returned carries the state the     *)
(* refresh loop computes from the snapshot that same request fetched, also *)
(* when another request runs at the same time.                             *)
C18_StateFromOwnSnapshot ==
    \A p \in Procs :
        (proc[p].op = "list" /\ Succeeded(proc[p])) =>
            \A row \in proc[p].out :
                row.State = LiveState(proc[p].snap, KeyOf(row.rule))

(* C19: (as stated) a listing that was answered with an error returned no  *)
(* rows and did not write the state of some of the rows it found while     *)
(* leaving others of them unwritten.                                       *)
C19_NoPartialRefresh ==
    (proc[1].op = "list" /\ proc[1].pc = "done" /\ proc[1].err # NoErr) =>
        /\ proc[1].out = {}
        /\ ~(proc[1].seen # <<>> /\ proc[1].found # <<>>)

(* The part of C19 about the backend: a listing whose snapshot could not   *)
(* be fetched returned no rows and wrote no state.                         *)
C19_BackendFailureWritesNothing ==
    (proc[1].op = "list" /\ proc[1].pc = "done" /\ proc[1].err = ErrBackend) =>
        /\ proc[1].out = {}
        /\ proc[1].seen = <<>>

(* The create in slot p makes its existence check in this step while a     *)
(* row of its cluster, namespace and name is committed.                     *)
ChecksExisting(p) ==
    /\ proc[p].op = "create"
    /\ proc[p].pc = "tx"
    /\ proc'[p] # proc[p]
    /\ RowsOfKey(store, KeyOf(proc[p].rule[1])) # {}

(* C20: a create whose existence check runs when a rule of the same        *)
(* cluster, namespace and name is committed is answered "already exist"    *)
(* (or with the storage error of the check) and writes nothing: no row,    *)
(* no ID taken, no remote resource touched. (That two overlapping creates  *)
(* both pass the check and leave two rows is the witness.)                  *)
C20_SecondCreateRejected ==
    [][ \A p \in Procs :
            ChecksExisting(p) =>
                /\ proc'[p].pc = "done"
                /\ proc'[p].err \in {ErrAlreadyExist, ErrStorage}
                /\ proc'[p].pending = <<>>
                /\ UNCHANGED <<store, nextID, secrets, prules, amcfgs>> ]_vars

(* Two creates of the same rule overlapped, both succeeded, and the table  *)
(* holds two rows of that cluster, namespace and name.                     *)
C20_Witness ==
    /\ \A p \in Procs : proc[p].op = "create" /\ Succeeded(proc[p])
    /\ KeyOf(proc[1].rule[1]) = KeyOf(proc[2].rule[1])
    /\ Cardinality(RowsOfKey(store, KeyOf(proc[1].rule[1]))) = 2

(* A create that did not overlap with the one before it was answered       *)
(* "already exist".                                                        *)
C20_WitnessRejected ==
    \E p \in Procs :
        /\ proc[p].op = "create"
        /\ proc[p].pc = "done"
        /\ proc[p].err = ErrAlreadyExist
        /\ Cardinality(RowsOfKey(store, KeyOf(proc[p].rule[1]))) = 1

---------------------------------------------------------------------------
(* Properties of identity, messages and persisted expressions.             *)

(* C21: (as stated) with the requests running one after another, the       *)
(* table never holds two rows of the same cluster, namespace and name.     *)
C21_OneRowPerKey ==
    \A k \in StoreKeys : Cardinality(RowsOfKey(store, k)) <= 1

(* The part of C21 that the existence check of create gives: with the     *)
(* requests running one after another, the row of a create that has just   *)
(* succeeded is the only row of its key.                                   *)
C21_CreateAloneKeepsOne ==
    (proc[1].op = "create" /\ Succeeded(proc[1])) =>
        \A row \in RowsOfKey(store, KeyOf(proc[1].rule[1])) :
            row.rule.ID = proc[1].rule[1].ID

(* setMessage has run on the request.                                      *)
MessageRan == pc # "tpl" /\ pc # "message" /\ failedAt # "tpl"

(* C22: (as stated) once setMessage has run on a request that came with a  *)
(* message, the rule's message is the caller's, whatever the alert type    *)
(* and with or without a generator, and setMessage run again on the result *)
(* gives the same message.                                                 *)
C22_CallerMessageKept ==
    (MessageRan /\ failedAt # "message" /\ bound.Message # <<>>) =>
        /\ req.Message = bound.Message
        /\ setMessage(req).rule.Message = req.Message

(* The parts of C22 that hold: a metric rule with a generator keeps the    *)
(* caller's message, and for every request setMessage run again gives the  *)
(* message of the first run.                                               *)
C22_GeneratorKeepsAndTwiceSame ==
    (MessageRan /\ failedAt # "message") =>
        /\ (IsMonitor /\ bound.PromqlGenerator # <<>> /\ bound.Message # <<>>)
                => req.Message = bound.Message
        /\ setMessage(req).rule.Message = req.Message

(* The request came with the generator of its alert type.                  *)
GeneratorBacked ==
    \/ bound.AlertType = AlertTypeMonitor /\ bound.PromqlGenerator # <<>>
    \/ bound.AlertType = AlertTypeLogging /\ bound.LogqlGenerator # <<>>

(* The same request sent without an expr.                                  *)
WithoutExpr == [bound EXCEPT !.Expr = <<>>]

(* C23: for a request with a generator, the expr of the rule that the      *)
(* pipeline hands to the store is the expr the same request sent without   *)
(* an expr gives, and a request refused by setExpr is refused with the     *)
(* same error as that one: the expr sent by the caller has no part in it.  *)
C23_ExprFromGenerator ==
    /\ (pc = "ok" /\ GeneratorBacked) =>
        /\ getAlertRuleReq(WithoutExpr).err = Nil
        /\ req.Expr = getAlertRuleReq(WithoutExpr).rule.Expr
    /\ (ExprFailed /\ GeneratorBacked) => getAlertRuleReq(WithoutExpr).err = err

(* A request with a generator and an expr of its own was accepted, with    *)
(* another expr than the one it sent.                                      *)
C23_Witness ==
    /\ pc = "ok"
    /\ GeneratorBacked
    /\ bound.Expr = ExprWithOp
    /\ req.Expr # bound.Expr
    /\ req.Expr # <<>>

---------------------------------------------------------------------------
(* Properties of the remote resources a create or update leaves            *)
(* (SpecStore).                                                            *)

(* The request in the slot has applied the stage.                          *)
Applied(slot, stage) == \E i \in 1..Len(slot.applied) : slot.applied[i] = stage

(* The row the table holds for the ID the slot writes.                     *)
StoredBefore(slot) == {row \in store : row.rule.ID = slot.rule[1].ID}

(* The PrometheusRule p holds one group with one rule per level of r, in   *)
(* level order.                                                            *)
OneRulePerLevel(r, p) ==
    /\ Len(p.Groups) = 1
    /\ Len(p.Groups[1].Rules) = Len(r.AlertLevels)
    /\ \A i \in 1..Len(r.AlertLevels) :
        /\ p.Groups[1].Rules[i].Expr =
                r.Expr \o <<r.AlertLevels[i].CompareOp, r.AlertLevels[i].CompareValue>>
        /\ p.Groups[1].Rules[i].Labels =
                [namespace |-> r.Namespace, name |-> r.Name,
                 severity |-> r.AlertLevels[i].Severity]

(* C24: once a create or update has applied its PrometheusRule stage, and  *)
(* so after a sync that succeeded, the rule's PrometheusRule holds exactly *)
(* one group with exactly one rule per level of the rule, in level order,  *)
(* each with the rule's expr followed by the level's operator and value    *)
(* and with the labels namespace, rule name and the level's severity;      *)
(* nothing of what an earlier sync wrote is left beside them.              *)
C24_OneGroupRulePerLevel ==
    (IsWrite(proc[1]) /\ Applied(proc[1], "prometheusrule")) =>
        /\ prules[KeyOf(proc[1].rule[1])] # <<>>
        /\ OneRulePerLevel(proc[1].rule[1], prules[KeyOf(proc[1].rule[1])][1])

(* An update to one level has synced and is about to commit over the row   *)
(* of the same name with two levels, which was synced before: the          *)
(* PrometheusRule holds one rule.                                          *)
C24_Witness ==
    /\ proc[1].op = "update"
    /\ proc[1].pc = "commit"
    /\ Len(proc[1].rule[1].AlertLevels) = 1
    /\ \E row \in StoredBefore(proc[1]) :
        /\ KeyOf(row.rule) = KeyOf(proc[1].rule[1])
        /\ Len(row.rule.AlertLevels) = 2
    /\ Len(prules[KeyOf(proc[1].rule[1])][1].Groups[1].Rules) = 1


(* The AlertmanagerConfig a routes to the null receiver at the top and     *)
(* holds one sub-route and one receiver entry per receiver of r, in order. *)
OneRoutePerReceiver(r, a) ==
    /\ Len(a.Route) = 1
    /\ a.Route[1].Receiver = "null"
    /\ Len(a.Route[1].Routes) = Len(r.Receivers)
    /\ \A i \in 1..Len(r.Receivers) :
        /\ a.Route[1].Routes[i].Receiver = r.Receivers[i].AlertChannel[1].Name
        /\ a.Route[1].Routes[i].RepeatInterval = r.Receivers[i].Interval
        /\ a.Route[1].Routes[i].Continue = TRUE
        /\ a.Route[1].Routes[i].Matchers =
                << [Name |-> AlertNamespaceLabel, Value |-> r.Namespace],
                   [Name |-> AlertNameLabel, Value |-> r.Name] >>
    /\ Len(a.Receivers) = Len(r.Receivers) + 1
    /\ a.Receivers[1].Name = "null"
    /\ \A i \in 1..Len(r.Receivers) :
        a.Receivers[i + 1].Name = r.Receivers[i].AlertChannel[1].Name

(* C25: once a create or update has applied its AlertmanagerConfig stage,  *)
(* the rule's AlertmanagerConfig has a top-level route to the null         *)
(* receiver and exactly one sub-route per receiver of the rule, matching   *)
(* the rule's namespace and name labels, with continue enabled and the     *)
(* receiver's repeat interval; its receiver list is the null receiver      *)
(* followed by one entry per receiver of the rule; no sub-route of an      *)
(* earlier sync is left.                                                   *)
C25_RoutePerReceiver ==
    (IsWrite(proc[1]) /\ Applied(proc[1], "alertmanagerconfig")) =>
        /\ amcfgs[KeyOf(proc[1].rule[1])] # <<>>
        /\ OneRoutePerReceiver(proc[1].rule[1], amcfgs[KeyOf(proc[1].rule[1])][1])

(* An update with fewer receivers has synced and is about to commit over   *)
(* the row of the same name, which was synced with more: the sub-routes    *)
(* are those of the update.                                                *)
C25_Witness ==
    /\ proc[1].op = "update"
    /\ proc[1].pc = "commit"
    /\ \E row \in StoredBefore(proc[1]) :
        /\ KeyOf(row.rule) = KeyOf(proc[1].rule[1])
        /\ Len(row.rule.Receivers) > Len(proc[1].rule[1].Receivers)
    /\ Len(amcfgs[KeyOf(proc[1].rule[1])][1].Route[1].Routes)
            = Len(proc[1].rule[1].Receivers)


(* The receivers of r with an email channel, and the others.               *)
EmailReceivers(r) ==
    {i \in 1..Len(r.Receivers) : r.Receivers[i].AlertChannel[1].Kind = "email"}
OtherReceivers(r) == (1..Len(r.Receivers)) \ EmailReceivers(r)

(* C26: once a create or update has applied its Secret stage, the Secret   *)
(* of the rule's namespace holds, for every receiver of the rule with an   *)
(* email channel, exactly one entry under the key made of the receiver     *)
(* name and the sender address, and its value is the channel's auth        *)
(* password unchanged; no entry of the Secret is keyed by the name of a    *)
(* receiver whose channel is not an email channel.                         *)
C26_EmailEntryPerReceiver ==
    (IsWrite(proc[1]) /\ Applied(proc[1], "secret")) =>
        /\ secrets[proc[1].rule[1].Namespace] # <<>>
        /\ \A i \in EmailReceivers(proc[1].rule[1]) :
            {e.val : e \in {d \in secrets[proc[1].rule[1].Namespace][1].Data :
                d.key = <<proc[1].rule[1].Receivers[i].AlertChannel[1].Name,
                          proc[1].rule[1].Receivers[i].AlertChannel[1].From>>}}
                = {proc[1].rule[1].Receivers[i].AlertChannel[1].AuthPassword}
        /\ \A i \in OtherReceivers(proc[1].rule[1]) :
            \A d \in secrets[proc[1].rule[1].Namespace][1].Data :
                d.key[1] # proc[1].rule[1].Receivers[i].AlertChannel[1].Name

(* A create with an email receiver and a webhook receiver has succeeded.   *)
C26_Witness ==
    /\ proc[1].op = "create"
    /\ Succeeded(proc[1])
    /\ EmailReceivers(proc[1].rule[1]) # {}
    /\ OtherReceivers(proc[1].rule[1]) # {}
    /\ secrets[proc[1].rule[1].Namespace][1].Data # {}


(* The entry keys of the Secret of a namespace.                            *)
SecretKeys(sec) == IF sec = <<>> THEN {} ELSE {d.key : d \in sec[1].Data}

(* No step removes a Secret or one of its entry keys.                      *)
SecretKeysGrow ==
    \A ns \in DOMAIN secrets :
        /\ secrets[ns] # <<>> => secrets'[ns] # <<>>
        /\ SecretKeys(secrets[ns]) \subseteq SecretKeys(secrets'[ns])

(* C27: no step of a create, an update or a delete removes the Secret of a *)
(* namespace or one of its entry keys: the set of entry keys only grows,   *)
(* and the teardown of a rule leaves the Secret in place.                  *)
C27_SecretKeysOnlyGrow == [][SecretKeysGrow]_vars

(* A delete has succeeded and torn the rule's resources down, and the      *)
(* Secret of its namespace still holds the entry of the rule's email       *)
(* receiver.                                                               *)
C27_Witness ==
    /\ proc[1].op = "delete"
    /\ Succeeded(proc[1])
    /\ TornDown(KeyOf(proc[1].rule[1]))
    /\ \E i \in EmailReceivers(proc[1].rule[1]) :
        <<proc[1].rule[1].Receivers[i].AlertChannel[1].Name,
          proc[1].rule[1].Receivers[i].AlertChannel[1].From>>
            \in SecretKeys(secrets[proc[1].rule[1].Namespace])

---------------------------------------------------------------------------
(* Properties of receiver resolution and teardown.                         *)

(* Two receivers of the list name the same channel.                        *)
RepeatsChannel(recs) ==
    \E i, j \in 1..Len(recs) : i # j /\ recs[i].AlertChannelID = recs[j].AlertChannelID

ReceiversFailed == pc = "failed" /\ failedAt = "receivers"

(* C28: when setReceivers has run on an empty receiver list it has failed  *)
(* with the empty-list error, and when it has run on a list that names a   *)
(* channel twice it has failed with the duplicate error, whether or not    *)
(* the channels exist; in both cases the receiver list is the one that was *)
(* sent: no default receiver appended and no channel attached.             *)
C28_RejectedBeforeLookup ==
    ReceiversRan =>
        /\ bound.Receivers = <<>> =>
            (ReceiversFailed /\ err = ErrEmptyReceivers /\ req.Receivers = bound.Receivers)
        /\ RepeatsChannel(bound.Receivers) =>
            (ReceiversFailed /\ err = ErrDuplicateChannel /\ req.Receivers = bound.Receivers)

(* A list that names twice a channel that is not stored, and omits the     *)
(* default channel, was rejected as a duplicate and is unchanged.          *)
C28_Witness ==
    /\ ReceiversFailed
    /\ err = ErrDuplicateChannel
    /\ Len(bound.Receivers) = 2
    /\ \A i \in 1..2 : bound.Receivers[i].AlertChannelID \notin ChannelIDs
    /\ Len(req.Receivers) = 2
    /\ \A i \in 1..2 : req.Receivers[i].AlertChannel = <<>>

(* An empty list was rejected.                                             *)
C28_WitnessEmpty == ReceiversFailed /\ err = ErrEmptyReceivers /\ bound.Receivers = <<>>


(* C29: a delete whose teardown has made its first remote call and has     *)
(* ended made all three calls: the AlertmanagerConfig deletion was         *)
(* attempted whatever the PrometheusRule deletion answered, an error other *)
(* than not-found included, and the silence removal was attempted after    *)
(* both.                                                                   *)
C29_TeardownIndependent ==
    (proc[1].op = "delete" /\ proc[1].pc = "done" /\ Len(proc[1].seen) >= 1) =>
        Len(proc[1].seen) = 3

(* What holds of the teardown instead: the calls are made in order and     *)
(* the first answer that is an error other than not-found is the last      *)
(* call made.                                                              *)
C29_StopsAtFirstError ==
    (proc[1].op = "delete" /\ proc[1].pc = "done" /\ Len(proc[1].seen) >= 1) =>
        \/ Len(proc[1].seen) = 3
        \/ proc[1].seen[Len(proc[1].seen)] = "error" /\ proc[1].err = ErrDelete

---------------------------------------------------------------------------
(* Properties of the read paths (SpecStore).                               *)

(* The rows the finished read in the slot read: the rows of the listed     *)
(* namespace, or the row the detail request loaded.                        *)
RowsRead(slot) ==
    IF slot.op = "list" THEN Listed(store, slot.body[1].Namespace)
    ELSE {row \in store : row.rule.ID = slot.found[1].rule.ID}

(* C30: (as stated) after a listing that succeeded and after a detail      *)
(* request that succeeded, every row the request read carries in the       *)
(* table the state the request computed from the snapshot it fetched.      *)
C30_ReadWritesState ==
    (proc[1].op \in {"list", "get"} /\ Succeeded(proc[1])) =>
        \A row \in RowsRead(proc[1]) :
            row.State = LiveState(proc[1].snap, KeyOf(row.rule))

(* The listing half of C30: after a listing that succeeded every listed    *)
(* row carries the state computed from the listing's snapshot.             *)
C30_ListWritesState ==
    (proc[1].op = "list" /\ Succeeded(proc[1])) =>
        \A row \in RowsRead(proc[1]) :
            row.State = LiveState(proc[1].snap, KeyOf(row.rule))

(* A listing succeeded and left a row with a state it computed.            *)
C30_WitnessList ==
    /\ proc[1].op = "list" /\ Succeeded(proc[1])
    /\ \E row \in RowsRead(proc[1]) : row.State = "firing"

(* The detail half as the handler has it: no step of a detail request      *)
(* changes the table, and the answer carries the computed state.           *)
C30_GetLeavesTable ==
    /\ [](proc[1].op = "get" /\ Succeeded(proc[1]) =>
            \A row \in proc[1].out :
                row.State = LiveState(proc[1].snap, KeyOf(row.rule)))
    /\ [][proc'[1].op = "get" => store' = store]_vars


(* The key has an entry in the snapshot.                                   *)
HasLiveEntry(snap, key) == \E e \in snap : e.key = key

(* The alerts are ordered by descending activation time.                   *)
DescendingByActiveAt(alerts) ==
    \A i, j \in 1..Len(alerts) : i < j => alerts[i].ActiveAt >= alerts[j].ActiveAt

(* The answered rule carries what the snapshot holds for its key.          *)
CarriesLive(row, snap) ==
    IF HasLiveEntry(snap, KeyOf(row.rule))
    THEN \E e \in snap :
            /\ e.key = KeyOf(row.rule)
            /\ row.State = e.State
            /\ Len(row.RealTimeAlerts) = Len(e.Alerts)
            /\ {row.RealTimeAlerts[i] : i \in 1..Len(row.RealTimeAlerts)}
                    = {e.Alerts[i] : i \in 1..Len(e.Alerts)}
            /\ DescendingByActiveAt(row.RealTimeAlerts)
    ELSE row.State = "inactive" /\ row.RealTimeAlerts = <<>>

(* C31: (as stated) every rule a listing or a detail request that          *)
(* succeeded returned carries, when the snapshot the request fetched has   *)
(* an entry for its namespace and name, the entry's state and the entry's  *)
(* alerts in descending order of activation time, and otherwise the state  *)
(* inactive and no alerts.                                                 *)
C31_ReturnedCarriesLive ==
    (proc[1].op \in {"list", "get"} /\ Succeeded(proc[1])) =>
        \A row \in proc[1].out : CarriesLive(row, proc[1].snap)

(* The detail half of C31.                                                 *)
C31_GetCarriesLive ==
    (proc[1].op = "get" /\ Succeeded(proc[1])) =>
        \A row \in proc[1].out : CarriesLive(row, proc[1].snap)

(* A detail request answered a firing rule with its alerts reordered.      *)
C31_WitnessGet ==
    /\ proc[1].op = "get" /\ Succeeded(proc[1])
    /\ \E row \in proc[1].out :
        /\ row.State = "firing"
        /\ row.RealTimeAlerts = <<[ActiveAt |-> 3], [ActiveAt |-> 2], [ActiveAt |-> 1]>>

---------------------------------------------------------------------------
(* Properties of the update checks and of failed syncs (SpecStore).        *)

(* The slot holds an update whose body has no rule ID, or a receiver       *)
(* without owning-rule ID, or no receiver on the default channel (so that  *)
(* setReceivers appends one without owning-rule ID).                       *)
UpdateLacksID(slot) ==
    /\ slot.op = "update"
    /\ \/ slot.body[1].ID = 0
       \/ DefaultChannelID \notin ChannelSet(slot.body[1].Receivers)
       \/ \E i \in 1..Len(slot.body[1].Receivers) :
            slot.body[1].Receivers[i].AlertRuleID = 0

(* The step that took up such an update left the table and the remote      *)
(* resources as they were.                                                 *)
LackingIDChangesNothing ==
    (UpdateLacksID(proc'[1]) /\ proc'[1] # proc[1]) =>
        /\ store' = store
        /\ Remote' = Remote
        /\ silences' = silences

(* C32: an update whose rule ID is zero, or whose receivers after          *)
(* resolution include one with owning-rule ID zero, is answered with an    *)
(* error without a transaction, a table write or a remote call; as the     *)
(* default receiver setReceivers appends has owning-rule ID zero, this is  *)
(* so for every update whose receiver list omits the default channel, and  *)
(* such an update changes nothing.                                         *)
C32_UpdateWithoutIDsRejected ==
    /\ [](UpdateLacksID(proc[1]) =>
            /\ proc[1].pc = "done"
            /\ proc[1].err # NoErr
            /\ proc[1].pending = <<>>
            /\ proc[1].applied = <<>>
            /\ (getAlertRuleReq(proc[1].body[1]).err = Nil /\ proc[1].body[1].ID # 0)
                    => proc[1].err = ErrReceiverID)
    /\ [][LackingIDChangesNothing]_vars

(* An update of the stored rule 1, all of whose receivers name rule 1 but  *)
(* none the default channel, was rejected for the appended receiver.       *)
C32_Witness ==
    /\ proc[1].op = "update"
    /\ proc[1].pc = "done"
    /\ proc[1].err = ErrReceiverID
    /\ proc[1].body[1].ID = 1
    /\ \A i \in 1..Len(proc[1].body[1].Receivers) :
        /\ proc[1].body[1].Receivers[i].AlertRuleID = 1
        /\ proc[1].body[1].Receivers[i].AlertChannelID # DefaultChannelID
    /\ Len(proc[1].rule[1].Receivers) = Len(proc[1].body[1].Receivers) + 1
    /\ \E row \in store : row.rule.ID = 1

---------------------------------------------------------------------------
(* Properties of the namespace matcher of generated metric rules (Spec).   *)

(* The caller's generator names the label namespace in a matcher.          *)
SentNamespaceMatcher ==
    /\ bound.PromqlGenerator # <<>>
    /\ \E i \in 1..Len(bound.PromqlGenerator[1].LabelMatchers) :
        bound.PromqlGenerator[1].LabelMatchers[i].Name = "namespace"

(* No two matchers the caller sent share a label name.                     *)
SentDistinctMatchers ==
    \A i, j \in 1..Len(bound.PromqlGenerator[1].LabelMatchers) :
        ~SameNameAt(bound.PromqlGenerator[1].LabelMatchers, i, j)

(* C33: when setExpr has run on a metric rule whose generator's template   *)
(* parsed and whose matchers, as sent, include one on the label namespace  *)
(* (of any value and match type): for a namespace-scoped rule the          *)
(* namespace equality matcher was appended to the generator's list and     *)
(* the request failed with the duplicate-matcher error; for the global or  *)
(* empty namespace nothing was appended and, unless the matchers sent      *)
(* repeat a label among themselves, the duplicate check passed: the error, *)
(* if any, is not the duplicate-matcher error, and the expr is the one     *)
(* generated from the template with the matchers as sent.                  *)
C33_SentNamespaceMatcher ==
    (/\ ExprRan /\ IsMonitor
     /\ SentNamespaceMatcher
     /\ promqlNew(req.PromqlGenerator[1].Tpl[1].Expr).ok)
    => IF NamespaceScoped(bound.Namespace)
       THEN /\ ExprFailed
            /\ err = ErrDuplicatedMatcher
            /\ req.PromqlGenerator[1].LabelMatchers =
                    Append(bound.PromqlGenerator[1].LabelMatchers,
                           NamespaceMatcher(bound.Namespace))
       ELSE /\ req.PromqlGenerator[1].LabelMatchers = bound.PromqlGenerator[1].LabelMatchers
            /\ SentDistinctMatchers =>
                /\ err # ErrDuplicatedMatcher
                /\ req.Expr =
                    QueryString(AddLabelMatchers(
                        promqlNew(req.PromqlGenerator[1].Tpl[1].Expr).ast,
                        bound.PromqlGenerator[1].LabelMatchers))

(* A scoped rule sent with a matcher namespace != other alone was rejected *)
(* as a duplicate.                                                         *)
C33_Witness ==
    /\ ExprFailed /\ IsMonitor
    /\ err = ErrDuplicatedMatcher
    /\ NamespaceScoped(bound.Namespace)
    /\ bound.PromqlGenerator # <<>>
    /\ bound.PromqlGenerator[1].LabelMatchers = <<LabelMatcher("namespace", "!=", "other")>>

(* A rule of the global namespace sent with a namespace matcher passed.    *)
C33_WitnessGlobal ==
    /\ ExprPassed /\ IsMonitor
    /\ SentNamespaceMatcher
    /\ bound.Namespace = GlobalAlertNamespace
    /\ Contains(req.Expr, <<"namespace", "=", "team-a">>)


(* Every step of a create or update other than its commit leaves the table *)
(* as it was.                                                              *)
OnlyCommitWrites ==
    (IsWrite(proc'[1]) /\ proc'[1] # proc[1] /\ proc[1].pc # "commit") => store' = store

(* The step in which a sync stage fails changes no remote resource.        *)
FailureKeepsRemote ==
    (IsWrite(proc'[1]) /\ proc'[1] # proc[1] /\ SyncFailed(proc'[1])) => Remote' = Remote

(* C34: a create or update that returned the error of a sync stage left    *)
(* the table without its write: no step of it but a commit writes the      *)
(* table and it did not commit, so that after a failed create no row of    *)
(* the rule's ID or of its namespace and name is stored, and after a       *)
(* failed update the row of the rule's ID, if any, is not the request's;   *)
(* the remote resources written by the stages it applied hold what it      *)
(* wrote.                                                                  *)
C34_FailedSyncRollsBack ==
    /\ []((IsWrite(proc[1]) /\ SyncFailed(proc[1])) =>
            /\ proc[1].pending = <<>>
            /\ proc[1].op = "create" =>
                /\ \A row \in store : row.rule.ID # proc[1].rule[1].ID
                /\ RowsOfKey(store, KeyOf(proc[1].rule[1])) = {}
            /\ Applied(proc[1], "secret") => SecretHolds(proc[1].rule[1])
            /\ Applied(proc[1], "prometheusrule") => PrometheusRuleHolds(proc[1].rule[1]))
    /\ [][OnlyCommitWrites /\ FailureKeepsRemote]_vars

(* An update failed at its last stage: the row of its ID is still the      *)
(* earlier version, while the PrometheusRule holds what the update wrote.  *)
C34_Witness ==
    /\ proc[1].op = "update"
    /\ SyncFailed(proc[1])
    /\ proc[1].applied = <<"secret", "prometheusrule">>
    /\ \E row \in store :
        /\ row.rule.ID = proc[1].rule[1].ID
        /\ row.rule # proc[1].rule[1]
        /\ row.rule.AlertLevels # proc[1].rule[1].AlertLevels
    /\ PrometheusRuleHolds(proc[1].rule[1])

(* A create failed at its last stage: no row, the PrometheusRule is there. *)
C34_WitnessCreate ==
    /\ proc[1].op = "create"
    /\ SyncFailed(proc[1])
    /\ proc[1].applied = <<"secret", "prometheusrule">>
    /\ store = {}
    /\ prules[KeyOf(proc[1].rule[1])] # <<>>

---------------------------------------------------------------------------
(* Properties of the listing's refresh under concurrency (SpecRace).       *)

(* The slot made a turn of the refresh loop in this step, for the          *)
(* namespace ns.                                                           *)
RefreshTurn(p) ==
    proc[p].op = "list" /\ proc[p].pc = "refresh" /\ proc'[p].seen # proc[p].seen

(* A turn of the refresh loop changes no column of any row but the state:  *)
(* the rules of the table are the same before and after, row by row.       *)
RefreshKeepsRules ==
    \A p \in Procs :
        RefreshTurn(p) =>
            /\ {row.rule : row \in store'} = {row.rule : row \in store}
            /\ Cardinality(store') = Cardinality(store)

(* A turn of the refresh loop changes only rows that are monitor rules of  *)
(* the namespace that is listed.                                           *)
RefreshKeepsOthers ==
    \A p \in Procs :
        RefreshTurn(p) =>
            \A row \in store :
                row \in store' \/ row \in Listed(store, proc[p].body[1].Namespace)

(* C35: (as stated) a turn of a listing's refresh loop changes the state   *)
(* column only, and only of monitor rules of the listed namespace; every   *)
(* other column and every other row is as before, also when another        *)
(* request updates the same rule in between.                               *)
C35_RefreshWritesStateOnly == [][RefreshKeepsRules /\ RefreshKeepsOthers]_vars

(* The part of C35 about the columns: no turn of the refresh loop changes  *)
(* a column other than the state, whatever runs beside it.                 *)
C35_RefreshKeepsColumns == [][RefreshKeepsRules]_vars

---------------------------------------------------------------------------
(* Properties of concurrent syncs on the shared Secret (SpecSecret).       *)

BothSynced ==
    /\ \A p \in Procs : proc[p].op = "sync" /\ Succeeded(proc[p])
    /\ proc[1].rule # proc[2].rule

C36_WitnessRefused ==
    /\ proc[1].op = "sync" /\ proc[1].pc = "done" /\ proc[1].err = ErrSecretConflict
    /\ proc[2].op = "sync" /\ Succeeded(proc[2])
    /\ SecretHolds(proc[2].rule[1])


---------------------------------------------------------------------------
(* Properties of the monitor-collector handlers (SpecCollector).           *)

HasCollectorLabel(svc) == <<LabelMonitorCollector, StatusEnabled>> \in svc.Labels

(* The last request was an add that named a port its Service did not       *)
(* expose.                                                                 *)
UnexposedAdd ==
    /\ coll.op = "add"
    /\ coll.svcsBefore[coll.key] # <<>>
    /\ ~portFound(coll.svcsBefore[coll.key][1], coll.port)

(* C37: while every collector request so far completed without error, a    *)
(* Service carries the collector-enabled label exactly when a              *)
(* ServiceMonitor of its name exists in its namespace; and an add request  *)
(* that names a port the Service does not expose returns an error and      *)
(* leaves every Service and ServiceMonitor as it was.                      *)
C37_LabelIffServiceMonitor ==
    /\ coll.failed = 0 =>
          \A k \in CollectorKeys :
              svcs[k] # <<>> => (HasCollectorLabel(svcs[k][1]) <=> sms[k] # <<>>)
    /\ UnexposedAdd =>
          /\ coll.err # NoErr
          /\ svcs = coll.svcsBefore
          /\ sms = coll.smsBefore

(* Two collectors were added and one of them deleted again, without error. *)
C37_Witness ==
    /\ coll.failed = 0 /\ coll.n = 3 /\ coll.op = "delete"
    /\ \E k \in CollectorKeys : sms[k] # <<>> /\ HasCollectorLabel(svcs[k][1])
    /\ svcs[coll.key] # <<>> /\ ~HasCollectorLabel(svcs[coll.key][1])

(* An add with an unexposed port was refused on a Service that has a       *)
(* collector.                                                              *)
C37_WitnessPort ==
    /\ UnexposedAdd
    /\ coll.err = ErrPortNotFound
    /\ sms[coll.key] # <<>>


---------------------------------------------------------------------------
(* Properties of the HTTP signatures (SpecSigs).                           *)

(* Validate has judged a request that carries the signature Sign gave it,  *)
(* on a path that is not whitelisted.                                      *)
SignedJudged ==
    /\ sent # <<>> /\ wire # <<>> /\ verdict # <<>>
    /\ wire[1].Sign # <<>>
    /\ ~IsWhiteList(verdict[1].WhiteList, wire[1].Path)

(* The validator sees the path, sign-time and token of the signing.        *)
AsSigned ==
    /\ wire[1].Path = TrimPrefix(sent[1].Path, sent[1].Prefix)
    /\ wire[1].Time = FormatInt(sent[1].Now)
    /\ verdict[1].Token = sent[1].Token

InWindow ==
    /\ verdict[1].Now - sent[1].Now <= Duration
    /\ sent[1].Now - verdict[1].Now <= Duration

(* C38: a signed request is accepted by a validator exactly when the       *)
(* validator holds the signer's token, sees the signed path with the       *)
(* prefix trimmed and the sign-time as signed, and validates within the    *)
(* window; with any other path, sign-time or token it is rejected.         *)
C38_SignRoundTrip ==
    SignedJudged => (verdict[1].err = Nil <=> AsSigned /\ InWindow)

(* With the sign-time header as Sign wrote it the round trip is as         *)
(* stated.                                                                 *)
C38_RoundTripSameTime ==
    SignedJudged /\ wire[1].Time = FormatInt(sent[1].Now) =>
        (verdict[1].err = Nil <=> AsSigned /\ InWindow)

(* A request signed on a prefixed path is accepted on the trimmed path.    *)
C38_WitnessTrimmed ==
    /\ SignedJudged /\ AsSigned /\ InWindow
    /\ sent[1].Prefix # <<>> /\ wire[1].Path # sent[1].Path
    /\ verdict[1].err = Nil


(* Validate has judged a request on a path that is not whitelisted.        *)
Judged ==
    /\ wire # <<>> /\ verdict # <<>>
    /\ ~IsWhiteList(verdict[1].WhiteList, wire[1].Path)

(* The sign-time header is an integer that many seconds after the          *)
(* validator's clock.                                                      *)
SignTimeAhead(d) ==
    /\ ParseInt(wire[1].Time) # <<>>
    /\ ParseInt(wire[1].Time)[1] - verdict[1].Now = d

SignTimeOffset == ParseInt(wire[1].Time)[1] - verdict[1].Now

(* C39: a request that is not whitelisted is rejected when its sign-time   *)
(* header is not an integer or is more than Duration seconds before or     *)
(* after the validator's clock, whatever its signature; at exactly         *)
(* Duration seconds before or after it is not timed out.                   *)
C39_WindowInclusive ==
    Judged =>
        /\ ParseInt(wire[1].Time) = <<>> => verdict[1].err # Nil
        /\ ParseInt(wire[1].Time) # <<>> =>
              /\ SignTimeOffset > Duration \/ SignTimeOffset < 0 - Duration
                    => verdict[1].err # Nil
              /\ SignTimeAhead(Duration) \/ SignTimeAhead(0 - Duration)
                    => verdict[1].err # ErrTimeOut

(* A request as signed is accepted by a clock exactly Duration seconds     *)
(* behind the signing.                                                     *)
C39_Witness ==
    /\ Judged /\ sent # <<>> /\ AsSigned
    /\ SignTimeAhead(Duration)
    /\ verdict[1].err = Nil

(* ... and by a clock exactly Duration seconds past it.                    *)
C39_WitnessPast ==
    /\ Judged /\ sent # <<>> /\ AsSigned
    /\ SignTimeAhead(0 - Duration)
    /\ verdict[1].err = Nil

(* A request as signed is timed out one second later.                      *)
C39_WitnessTimedOut ==
    /\ Judged /\ sent # <<>> /\ AsSigned
    /\ SignTimeAhead(0 - Duration - 1)
    /\ verdict[1].err = ErrTimeOut

(* A request as signed but for a sign-time that is no integer.             *)
C39_WitnessNoInteger ==
    /\ Judged /\ sent # <<>>
    /\ wire[1].Path = TrimPrefix(sent[1].Path, sent[1].Prefix)
    /\ wire[1].Sign # <<>>
    /\ ParseInt(wire[1].Time) = <<>>
    /\ verdict[1].err = ErrParseInt


(* The paths added to a whitelist.                                         *)
WhiteSet(wl) == {wl[idx] : idx \in 1..Len(wl)}

(* C40: Validate accepts a request whatever its signature headers exactly  *)
(* when its path is equal to a path added with AddWhiteList; every other   *)
(* path, one that extends a whitelisted path included, gets the result of  *)
(* the signature checks; and the whitelist never holds a path twice.       *)
C40_WhiteListExact ==
    /\ wire # <<>> /\ verdict # <<>> =>
          IF wire[1].Path \in WhiteSet(verdict[1].WhiteList)
          THEN verdict[1].err = Nil
          ELSE verdict[1].err = validateSignature(verdict[1].Token, wire[1], verdict[1].Now)
    /\ \A i, j \in 1..Len(whitelist) : whitelist[i] = whitelist[j] => i = j

(* A request without signature headers was accepted on a whitelisted path, *)
(* with both paths on the whitelist.                                       *)
C40_Witness ==
    /\ wire # <<>> /\ verdict # <<>>
    /\ wire[1].Path \in WhiteSet(verdict[1].WhiteList)
    /\ wire[1].Time = <<>> /\ wire[1].Sign = <<>>
    /\ verdict[1].err = Nil
    /\ Len(whitelist) = Cardinality(WhitePaths)

(* The same request was rejected on a path that extends a whitelisted      *)
(* path.                                                                   *)
C40_WitnessPrefix ==
    /\ wire # <<>> /\ verdict # <<>>
    /\ wire[1].Path \notin WhiteSet(verdict[1].WhiteList)
    /\ \E p \in WhiteSet(verdict[1].WhiteList) : TrimPrefix(wire[1].Path, p) # wire[1].Path
    /\ wire[1].Time = <<>> /\ wire[1].Sign = <<>>
    /\ verdict[1].err # Nil

===========================================================================
